---- MODULE Spec2Model ----
(***************************************************************************)
(* Model of the scheduling and conflict-resolution engine of the Calendar  *)
(* Assist bot: FreeSlotService.find_slots, the conflict detector, the      *)
(* event mutation engine and the per-user conversation state               *)
(* (context.user_data) driven by text turns (fallback) and button presses  *)
(* (handle_callback_query).                                                *)
(*                                                                         *)
(* Time is an integer number of minutes since local midnight of day 0; all *)
(* datetimes are aware datetimes of the one configured timezone.           *)
(* Python None is the empty tuple, a present value v is <<v>>.             *)
(* context.user_data is a function whose DOMAIN is the set of keys held.   *)
(***************************************************************************)
EXTENDS Integers, Sequences, FiniteSets, TLC

VARIABLES
    calendar,     \* backend: the set of events of the user's primary calendar
    next_id,      \* backend: id the next inserted event receives
    user_data,    \* context.user_data of the one user
    turn,         \* the last handled turn: operation, reply, backend calls
    turns_left,   \* turns the run may still take
    fs_request,   \* find_slots: the FreeSlotRequest under study
    fs_busy,      \* find_slots: the busy intervals fetched for it
    fs_max,       \* find_slots: max_suggestions
    fs_slots,     \* find_slots: the returned list
    fs_pc,        \* find_slots: "ready" before the call, "done" after
    fs_loop,      \* find_slots: the locals of its loops while it runs step by step
    series_db,    \* database: the committed series plans, each with its block rows
    tasks         \* the button handlers in flight, each a coroutine with its position and locals

vars == <<calendar, next_id, user_data, turn, turns_left, fs_request, fs_busy, fs_max, fs_slots, fs_pc, fs_loop, series_db, tasks>>
botVars == <<calendar, next_id, user_data, turn, turns_left>>
fsVars == <<fs_request, fs_busy, fs_max, fs_slots, fs_pc, fs_loop>>

----------------------------------------------------------------------------
(* Optional values and dictionaries *)

None == <<>>
Some(v) == <<v>>
IsSome(o) == Len(o) > 0
IsNone(o) == Len(o) = 0
Val(o) == o[1]

EmptyDict == <<>>
Has(d, k) == k \in DOMAIN d
Get(d, k) == IF k \in DOMAIN d THEN <<d[k]>> ELSE <<>>
Put(d, k, v) == [x \in (DOMAIN d) \cup {k} |-> IF x = k THEN v ELSE d[x]]
Pop(d, k) == [x \in (DOMAIN d) \ {k} |-> d[x]]
PopAll(d, ks) == [x \in (DOMAIN d) \ ks |-> d[x]]
SetOrPop(d, k, o) == IF IsSome(o) THEN Put(d, k, Val(o)) ELSE Pop(d, k)

Min(a, b) == IF a < b THEN a ELSE b
Max(a, b) == IF a > b THEN a ELSE b
Take(s, n) == SubSeq(s, 1, Min(n, Len(s)))
Range(s) == {s[i] : i \in DOMAIN s}

----------------------------------------------------------------------------
(* Time *)

DayMinutes == 1440
DayOf(t) == t \div DayMinutes
MinuteOfDay(t) == t % DayMinutes
At(day, hour, minute) == day * DayMinutes + hour * 60 + minute

\* ContextKey and the other user_data keys
K_LAST_EVENT == "last_event_context"
K_LAST_EVENT_LEGACY == "last_created_event"
K_AGENDA == "agenda_context"
K_PENDING_CREATE_CONFLICT == "pending_conflict"
K_PENDING_UPDATE_CONFLICT == "pending_update_conflict"
K_LAST_FREE_SLOTS == "last_free_slots"
K_LAST_EVENT_QUERY == "last_event_query"
K_PENDING_DELETE == "pending_delete"
K_PENDING_DELETE_LIST == "pending_delete_list"
K_PENDING_UPDATE_LIST == "pending_update_list"
K_PENDING_UPDATE_DATA == "pending_update_data"
K_PENDING_UPDATE_DETAIL == "pending_update_detail"
FREE_SLOT_EXPECTATION_KEY == "expecting_window_query"
K_EXPECTING_EVENT == "expecting_event"
K_EXPECTING_SEARCH == "expecting_search"
K_PENDING_FREE_SLOT == "pending_free_slot"
K_EXPECTING_AGENDA == "expecting_agenda"
K_PENDING_SERIES_PLAN == "pending_series_plan"

----------------------------------------------------------------------------
(* Calendar backend *)

\* an event's start/end payload: {"dateTime": ...} or, for an all-day event, {"date": ...}
TimedPayload(t) == [dateTime |-> Some(t), date |-> None]
DatePayload(day) == [dateTime |-> None, date |-> Some(day)]

\* _parse_google_datetime: dateTime, else the date at 00:00, else None
ParseGoogleDatetime(payload) ==
    IF IsSome(payload.dateTime) THEN payload.dateTime
    ELSE IF IsSome(payload.date) THEN Some(Val(payload.date) * DayMinutes)
    ELSE None

\* RemindersConfig.from_minutes
RemindersFromMinutes(minutes) ==
    IF IsNone(minutes) THEN None
    ELSE IF Val(minutes) <= 0 THEN Some([use_default |-> FALSE, overrides |-> <<>>])
    ELSE Some([use_default |-> FALSE, overrides |-> <<Val(minutes)>>])

\* the instants the backend orders and filters an event by
ApiStart(e) == Val(ParseGoogleDatetime(e.start))
ApiEnd(e) == Val(ParseGoogleDatetime(e.end))

StartsBefore(e, f) == ApiStart(e) < ApiStart(f) \/ (ApiStart(e) = ApiStart(f) /\ e.id <= f.id)

RECURSIVE SortEvents(_)
SortEvents(S) ==
    IF S = {} THEN <<>>
    ELSE LET m == CHOOSE e \in S : \A f \in S : StartsBefore(e, f)
         IN <<m>> \o SortEvents(S \ {m})

\* GoogleCalendarService.list_events_between: events.list(timeMin, timeMax,
\* singleEvents, orderBy=startTime, maxResults)
ListEventsBetween(cal, tmin, tmax, max_results) ==
    Take(SortEvents({e \in cal : ApiEnd(e) > tmin /\ ApiStart(e) < tmax}), max_results)

\* GoogleCalendarService.search_events: events.list(q, orderBy=startTime, maxResults)
SearchEvents(cal, query, max_results) ==
    Take(SortEvents({e \in cal : e.status /= "cancelled" /\ e.summary = query}), max_results)

EventById(cal, id) == CHOOSE e \in cal : e.id = id
HasEvent(cal, id) == \E e \in cal : e.id = id

----------------------------------------------------------------------------
(* ConflictDetector *)

ConflictPadMinutes == 1
ConflictMaxResults == 20

\* f"{existing_start:%d.%m %H:%M} — {existing_end:%H:%M}": the start's day and
\* time of day, and the end's time of day only
FormatConflictTime(existing_start, existing_end) ==
    <<DayOf(existing_start), MinuteOfDay(existing_start), MinuteOfDay(existing_end)>>

\* a narrower test than _detect_conflict's: only a start that falls inside the
\* listed event counts (what C2 must tell apart from the half-open overlap test)
BlocksStartInside(item, start_dt, end_dt, exclude_event_id) ==
    /\ item.status /= "cancelled"
    /\ ~(IsSome(exclude_event_id) /\ item.id = Val(exclude_event_id))
    /\ IsSome(ParseGoogleDatetime(item.start))
    /\ IsSome(ParseGoogleDatetime(item.end))
    /\ start_dt >= Val(ParseGoogleDatetime(item.start))
    /\ start_dt < Val(ParseGoogleDatetime(item.end))

\* a wider test than _detect_conflict's: a shared boundary instant counts too
BlocksOrTouches(item, start_dt, end_dt, exclude_event_id) ==
    /\ item.status /= "cancelled"
    /\ ~(IsSome(exclude_event_id) /\ item.id = Val(exclude_event_id))
    /\ IsSome(ParseGoogleDatetime(item.start))
    /\ IsSome(ParseGoogleDatetime(item.end))
    /\ start_dt <= Val(ParseGoogleDatetime(item.end))
    /\ end_dt >= Val(ParseGoogleDatetime(item.start))

\* the test of one listed event inside _detect_conflict's loop
Blocks(item, start_dt, end_dt, exclude_event_id) ==
    /\ item.status /= "cancelled"
    /\ ~(IsSome(exclude_event_id) /\ item.id = Val(exclude_event_id))
    /\ IsSome(ParseGoogleDatetime(item.start))
    /\ IsSome(ParseGoogleDatetime(item.end))
    /\ start_dt < Val(ParseGoogleDatetime(item.end))
    /\ end_dt > Val(ParseGoogleDatetime(item.start))

\* the conflict dict _detect_conflict returns for a blocking event
ConflictOf(item) ==
    [summary |-> item.summary,
     time |-> FormatConflictTime(Val(ParseGoogleDatetime(item.start)),
                                 Val(ParseGoogleDatetime(item.end))),
     event_id |-> item.id]

\* a loop that keeps the last of the listed events that blocks
LastBlocking(events, start_dt, end_dt, exclude_event_id) ==
    LET hits == {i \in DOMAIN events : Blocks(events[i], start_dt, end_dt, exclude_event_id)}
    IN IF hits = {} THEN None
       ELSE Some(ConflictOf(events[CHOOSE k \in hits : \A j \in hits : k >= j]))

\* _detect_conflict's loop: the first of the listed events that blocks
FirstBlocking(events, start_dt, end_dt, exclude_event_id) ==
    LET hits == {i \in DOMAIN events : Blocks(events[i], start_dt, end_dt, exclude_event_id)}
    IN IF hits = {} THEN None
       ELSE Some(ConflictOf(events[CHOOSE k \in hits : \A j \in hits : k <= j]))

\* _detect_conflict: list the events around the interval, return the first that blocks
DetectConflict(cal, start_dt, end_dt, exclude_event_id) ==
    FirstBlocking(ListEventsBetween(cal, start_dt - ConflictPadMinutes,
                                    end_dt + ConflictPadMinutes, ConflictMaxResults),
                  start_dt, end_dt, exclude_event_id)

----------------------------------------------------------------------------
(* Conversation state accessors (app/bot/context.py) *)

\* a reset that spares the two pending conflicts (what C10 must tell apart
\* from the unconditional clear)
ResetKeepingConflicts(ud, preserve) ==
    [k \in (DOMAIN ud) \cap (preserve \cup {K_PENDING_CREATE_CONFLICT, K_PENDING_UPDATE_CONFLICT})
       |-> ud[k]]

\* reset_user_context: clear user_data, keeping the preserved keys that hold a value
ResetUserContext(ud, preserve) == [k \in (DOMAIN ud) \cap preserve |-> ud[k]]

\* set_last_event_context: both the current and the legacy key
SetLastEventContext(ud, event_id, summary) ==
    LET payload == [event_id |-> event_id, summary |-> summary]
    IN Put(Put(ud, K_LAST_EVENT, payload), K_LAST_EVENT_LEGACY, payload)

\* set_last_event_query: a non-empty query is stored, an empty one removes the key
SetLastEventQuery(ud, query) ==
    IF query /= "" THEN Put(ud, K_LAST_EVENT_QUERY, query) ELSE Pop(ud, K_LAST_EVENT_QUERY)

\* get_last_event_query
GetLastEventQuery(ud) == IF Has(ud, K_LAST_EVENT_QUERY) THEN ud[K_LAST_EVENT_QUERY] ELSE ""

\* set_pending_create_conflict / set_pending_update_conflict with a value
SetPendingCreateConflict(ud, conflict) == Put(ud, K_PENDING_CREATE_CONFLICT, conflict)
SetPendingUpdateConflict(ud, conflict) == Put(ud, K_PENDING_UPDATE_CONFLICT, conflict)

\* a read of the pending create conflict that does not clear it (what C8 must
\* tell apart from read-and-clear)
PeekPendingCreateConflict(ud) == [value |-> Get(ud, K_PENDING_CREATE_CONFLICT), ud |-> ud]

\* pop_pending_create_conflict / pop_pending_update_conflict: read and clear
PopPendingCreateConflict(ud) ==
    [value |-> Get(ud, K_PENDING_CREATE_CONFLICT), ud |-> Pop(ud, K_PENDING_CREATE_CONFLICT)]
PopPendingUpdateConflict(ud) ==
    [value |-> Get(ud, K_PENDING_UPDATE_CONFLICT), ud |-> Pop(ud, K_PENDING_UPDATE_CONFLICT)]

\* what a handler leaves behind: user_data, backend, reply, backend calls issued
\* (applied: the arguments of the _apply_event_update call the handler made, if any)
Outcome(ud, cal, nid, reply, calls) ==
    [ud |-> ud, cal |-> cal, nid |-> nid, reply |-> reply, calls |-> calls,
     raised |-> FALSE, applied |-> None]

\* a handler that ended with an exception it did not catch itself
Raised(ud, cal, nid, calls) ==
    [ud |-> ud, cal |-> cal, nid |-> nid, reply |-> "none", calls |-> calls,
     raised |-> TRUE, applied |-> None]

\* the outcome of a handler that issued some backend calls before the step that gave out
Prepend(calls, out) == [out EXCEPT !.calls = calls \o out.calls]

\* an outcome after more keys were popped from user_data
ThenPop(out, keys) == [out EXCEPT !.ud = PopAll(out.ud, keys)]

----------------------------------------------------------------------------
(* SlotFinder (app/services/free_slots.py) *)

DefaultDayStartHour == 8
DefaultDayEndHour == 20
SlotStepMinutes == 30
BusyMaxResults == 250

FreeSlot(start, end) == [start |-> start, end |-> end]

\* a free test that only asks whether the candidate's start lies inside a busy interval
IsFreeStartOnly(candidate_start, candidate_end, busy) ==
    \A i \in DOMAIN busy : ~(busy[i][1] <= candidate_start /\ candidate_start < busy[i][2])

\* FreeSlotService._is_free: no busy interval overlaps [candidate_start, candidate_end)
IsFree(candidate_start, candidate_end, busy) ==
    \A i \in DOMAIN busy : ~(candidate_start < busy[i][2] /\ candidate_end > busy[i][1])

\* FreeSlotService._fetch_busy_intervals: the listed events that carry a
\* dateTime at both ends, as (start, end) pairs
FetchBusyIntervals(cal, start, end) ==
    LET events == ListEventsBetween(cal, start, end, BusyMaxResults)
        timed == SelectSeq(events, LAMBDA e : IsSome(e.start.dateTime) /\ IsSome(e.end.dateTime))
    IN [i \in DOMAIN timed |-> <<Val(timed[i].start.dateTime), Val(timed[i].end.dateTime)>>]

\* datetime.replace(hour=h, minute=0, second=0, microsecond=0); it raises
\* ValueError unless 0 <= h <= 23
HourValid(h) == h \in 0..23

\* a replace that lands an hour before the hour asked for
ReplaceHourBefore(t, h) == DayOf(t) * DayMinutes + (h - 1) * 60

ReplaceHour(t, h) == DayOf(t) * DayMinutes + h * 60

\* a scan that stops at the end of the search range only and ignores the
\* end of the day's window
ScanDayToBound(candidate_start, duration, day_end, end_bound, busy) ==
    IF candidate_start + duration <= end_bound
       /\ IsFree(candidate_start, candidate_start + duration, busy)
    THEN Some(FreeSlot(candidate_start, candidate_start + duration))
    ELSE None

\* a scan that tries a candidate every hour instead of every 30 minutes
RECURSIVE ScanDayHourly(_, _, _, _, _)
ScanDayHourly(candidate_start, duration, day_end, end_bound, busy) ==
    IF candidate_start + duration <= day_end
    THEN IF candidate_start + duration > end_bound THEN None
         ELSE IF IsFree(candidate_start, candidate_start + duration, busy)
              THEN Some(FreeSlot(candidate_start, candidate_start + duration))
              ELSE ScanDayHourly(candidate_start + 60, duration, day_end, end_bound, busy)
    ELSE None

\* the inner while loop of find_slots: the first free candidate of the day
RECURSIVE ScanDay(_, _, _, _, _)
ScanDay(candidate_start, duration, day_end, end_bound, busy) ==
    IF candidate_start + duration <= day_end
    THEN LET candidate_end == candidate_start + duration
         IN IF candidate_end > end_bound THEN None
            ELSE IF IsFree(candidate_start, candidate_end, busy)
                 THEN Some(FreeSlot(candidate_start, candidate_end))
                 ELSE ScanDay(candidate_start + SlotStepMinutes, duration, day_end, end_bound, busy)
    ELSE None

\* the outer while loop of find_slots, from the day cursor on
RECURSIVE WalkDays(_, _, _, _, _)
WalkDays(cursor, slots, request, busy, max_suggestions) ==
    LET start_bound == request.date_from
        end_bound == request.date_to
    IN IF cursor < end_bound /\ Len(slots) < max_suggestions
       THEN LET day_start_hour == IF IsSome(request.preferred_start)
                                  THEN Val(request.preferred_start) ELSE DefaultDayStartHour
                day_end_hour == IF IsSome(request.preferred_end)
                                THEN Val(request.preferred_end) ELSE DefaultDayEndHour
            IN IF ~HourValid(day_start_hour) \/ ~HourValid(day_end_hour)
               THEN [error |-> TRUE, slots |-> <<>>]
               ELSE LET day_start == Max(ReplaceHour(cursor, day_start_hour), start_bound)
                        day_end == Min(ReplaceHour(cursor, day_end_hour), end_bound)
                        candidate_start == Max(cursor, day_start)
                        found == ScanDay(candidate_start, request.duration_minutes,
                                         day_end, end_bound, busy)
                        next_day == ReplaceHour(cursor + DayMinutes, day_start_hour)
                    IN WalkDays(Max(next_day, start_bound),
                                IF IsSome(found) THEN Append(slots, Val(found)) ELSE slots,
                                request, busy, max_suggestions)
       ELSE [error |-> FALSE, slots |-> slots]

\* a search that accepts one slot more than max_suggestions
FindSlotsOneMore(request, busy, max_suggestions) ==
    WalkDays(request.date_from, <<>>, request, busy, max_suggestions + 1)

\* FreeSlotService.find_slots over the fetched busy intervals
FindSlotsOver(request, busy, max_suggestions) ==
    WalkDays(request.date_from, <<>>, request, busy, max_suggestions)

DefaultMaxSuggestions == 3

\* FreeSlotService.find_slots: fetch, then search
FindSlots(cal, request, max_suggestions) ==
    FindSlotsOver(request, FetchBusyIntervals(cal, request.date_from, request.date_to),
                  max_suggestions)

----------------------------------------------------------------------------
(* Backend events *)

Event(id, summary, start, end, status) ==
    [id |-> id, summary |-> summary, start |-> start, end |-> end, status |-> status,
     conference |-> FALSE, colorId |-> None, reminders |-> None,
     description |-> None, location |-> None]

TimedEvent(id, summary, start, end) ==
    Event(id, summary, TimedPayload(start), TimedPayload(end), "confirmed")

----------------------------------------------------------------------------
(* find_slots as a function of its inputs: the specification SpecSlots *)

FsDays == 2          \* the search range spans at most this many days
FsMaxEvents == 2     \* events in the calendar the search runs against
FsMaxSuggestions == 3

FsEventPool ==
    { TimedEvent(1, "review", At(0, 8, 0), At(0, 9, 0)),
      TimedEvent(2, "sync", At(0, 9, 0), At(0, 10, 30)),
      TimedEvent(3, "lunch", At(0, 8, 15), At(0, 8, 45)),
      TimedEvent(4, "offsite", At(0, 8, 0), At(0, 20, 0)),
      TimedEvent(5, "standup", At(1, 8, 0), At(1, 8, 30)),
      Event(6, "dropped", TimedPayload(At(0, 8, 0)), TimedPayload(At(0, 8, 30)), "cancelled"),
      Event(7, "holiday", DatePayload(1), DatePayload(2), "confirmed") }

FsCalendars == {c \in SUBSET FsEventPool : Cardinality(c) <= FsMaxEvents}

FsRangeStarts == {At(0, 7, 0), At(0, 8, 0), At(0, 9, 0), At(0, 9, 15), At(0, 19, 45)}
FsRangeEnds == {At(0, 9, 0), At(0, 23, 59)} \cup {At(d, 12, 0) : d \in 1..FsDays}
FsDurations == {30, 45, 90}
\* preferred hours: none, two ordinary windows, the "night" window (21, 24),
\* and two windows whose start hour is not before the end hour
FsWindows ==
    {<<None, None>>, <<Some(9), Some(12)>>, <<Some(8), Some(9)>>, <<Some(21), Some(24)>>,
     <<Some(12), Some(9)>>, <<Some(9), Some(9)>>}

FsRequests ==
    { [duration_minutes |-> d, date_from |-> f, date_to |-> t,
       preferred_start |-> w[1], preferred_end |-> w[2]] :
      d \in FsDurations, f \in FsRangeStarts, t \in FsRangeEnds, w \in FsWindows }

IdleRequest ==
    [duration_minutes |-> 30, date_from |-> 0, date_to |-> 0,
     preferred_start |-> None, preferred_end |-> None]

\* no turn handled yet
IdleTurn ==
    [op |-> "none", arg |-> 0, reply |-> "none", calls |-> <<>>, applied |-> None,
     failed |-> FALSE]

InitSlots ==
    /\ calendar \in FsCalendars
    /\ fs_request \in FsRequests
    /\ fs_max \in 1..FsMaxSuggestions
    /\ fs_busy = <<>>
    /\ fs_slots = <<>>
    /\ fs_pc = "ready"
    /\ fs_loop = <<>>
    /\ series_db = <<>>
    /\ tasks = <<>>
    /\ next_id = 100
    /\ user_data = EmptyDict
    /\ turn = IdleTurn
    /\ turns_left = 0

\* one call of find_slots(request, max_suggestions)
RunFindSlots ==
    /\ fs_pc = "ready"
    /\ LET busy == FetchBusyIntervals(calendar, fs_request.date_from, fs_request.date_to)
           result == FindSlotsOver(fs_request, busy, fs_max)
       IN /\ fs_busy' = busy
          /\ fs_slots' = result.slots
          /\ fs_pc' = IF result.error THEN "failed" ELSE "done"
    /\ UNCHANGED <<calendar, next_id, user_data, turn, turns_left, fs_request, fs_max, fs_loop,
                   series_db, tasks>>

NextSlots == RunFindSlots

SpecSlots == InitSlots /\ [][NextSlots]_vars

Overlaps(a_start, a_end, b_start, b_end) == a_start < b_end /\ a_end > b_start

\* the events of cal that are not cancelled and overlap [start_dt, end_dt)
LiveOverlapping(cal, start_dt, end_dt) ==
    {e \in cal : e.status /= "cancelled" /\ Overlaps(start_dt, end_dt, ApiStart(e), ApiEnd(e))}

\* C1: every slot find_slots returns is exactly as long as the requested
\* duration and overlaps (half-open test) none of the busy intervals that
\* were fetched for the search.
C1_SlotsHaveDurationAndAreFree ==
    fs_pc = "done" =>
        \A i \in DOMAIN fs_slots :
            /\ fs_slots[i].end - fs_slots[i].start = fs_request.duration_minutes
            /\ \A j \in DOMAIN fs_busy :
                   ~Overlaps(fs_slots[i].start, fs_slots[i].end, fs_busy[j][1], fs_busy[j][2])

\* a search that skipped a busy candidate before it accepted a later one
C1_Witness ==
    /\ fs_pc = "done"
    /\ Len(fs_slots) >= 1
    /\ \E j \in DOMAIN fs_busy :
           /\ fs_busy[j][1] <= fs_request.date_from
           /\ fs_slots[1].start >= fs_busy[j][2]
           /\ DayOf(fs_slots[1].start) = DayOf(fs_request.date_from)

\* C18: find_slots returns its slots in strictly increasing start order, at
\* most max_suggestions of them, and no two of them on the same calendar day
C18_SlotsOrderedCappedOnePerDay ==
    fs_pc = "done" =>
        /\ Len(fs_slots) <= fs_max
        /\ \A i, j \in DOMAIN fs_slots :
               i < j => /\ fs_slots[i].start < fs_slots[j].start
                        /\ DayOf(fs_slots[i].start) /= DayOf(fs_slots[j].start)

\* the search stopped at max_suggestions = 2 slots, on two consecutive days,
\* although the range reaches into a further day
C18_Witness ==
    /\ fs_pc = "done"
    /\ fs_max = 2
    /\ Len(fs_slots) = 2
    /\ DayOf(fs_slots[2].start) = DayOf(fs_slots[1].start) + 1
    /\ DayOf(fs_request.date_to) > DayOf(fs_slots[2].start)

\* the request's range is empty or reversed, or its preferred window is
DegenerateRequest(request) ==
    \/ request.date_from >= request.date_to
    \/ /\ IsSome(request.preferred_start)
       /\ IsSome(request.preferred_end)
       /\ Val(request.preferred_start) >= Val(request.preferred_end)

WindowStartHour(request) ==
    IF IsSome(request.preferred_start) THEN Val(request.preferred_start) ELSE 8
WindowEndHour(request) ==
    IF IsSome(request.preferred_end) THEN Val(request.preferred_end) ELSE 20

\* where the search of day d starts and where it must end: the day's window
\* cut to the range
EffectiveStart(request, d) == Max(At(d, WindowStartHour(request), 0), request.date_from)
EffectiveEnd(request, d) == Min(At(d, WindowEndHour(request), 0), request.date_to)

\* the k-th candidate of day d fits into the window and the range and is free
GridCandidateFree(request, busy, d, k) ==
    LET start == EffectiveStart(request, d) + k * 30
        end == start + request.duration_minutes
    IN /\ end <= EffectiveEnd(request, d)
       /\ \A j \in DOMAIN busy : ~Overlaps(start, end, busy[j][1], busy[j][2])

\* find_slots reaches day d: it has not collected max_suggestions slots on
\* the days before, and the day's cursor lies before the range end
Visits(request, slots, max_suggestions, d) ==
    /\ d >= DayOf(request.date_from)
    /\ Cardinality({i \in DOMAIN slots : DayOf(slots[i].start) < d}) < max_suggestions
    /\ (IF d = DayOf(request.date_from) THEN request.date_from
        ELSE At(d, WindowStartHour(request), 0)) < request.date_to

GridSteps == 0..47

\* C26: on each day find_slots visits, the accepted slot starts at the first
\* candidate of the 30-minute grid anchored at the day's effective window
\* start (the window start, or the range start when that is later) that fits
\* into the window and the range and is free: no earlier candidate of the grid
\* is free, and a visited day with a free candidate does yield a slot
C26_FirstFreeGridCandidate ==
    fs_pc = "done" =>
        /\ \A i \in DOMAIN fs_slots :
               LET d == DayOf(fs_slots[i].start)
               IN /\ Visits(fs_request, fs_slots, fs_max, d)
                  /\ \E k \in GridSteps :
                         /\ fs_slots[i].start = EffectiveStart(fs_request, d) + k * 30
                         /\ GridCandidateFree(fs_request, fs_busy, d, k)
                         /\ \A j \in 0..(k - 1) : ~GridCandidateFree(fs_request, fs_busy, d, j)
        /\ \A d \in 0..(FsDays + 1) :
               (/\ Visits(fs_request, fs_slots, fs_max, d)
                /\ \E k \in GridSteps : GridCandidateFree(fs_request, fs_busy, d, k)) =>
                   \E i \in DOMAIN fs_slots : DayOf(fs_slots[i].start) = d

\* the spec's scenario shifted by half an hour: the range starts at 09:00
\* inside a busy interval that lasts until 10:30, the window is (9, 12), the
\* duration 30 minutes; 09:00, 09:30 and 10:00 are busy and 10:30 is accepted
C26_Witness ==
    /\ fs_pc = "done"
    /\ fs_request.duration_minutes = 30
    /\ fs_request.date_from = At(0, 9, 0)
    /\ fs_request.preferred_start = Some(9)
    /\ fs_request.preferred_end = Some(12)
    /\ fs_busy = <<<<At(0, 9, 0), At(0, 10, 30)>>>>
    /\ Len(fs_slots) >= 1
    /\ fs_slots[1] = FreeSlot(At(0, 10, 30), At(0, 11, 0))

\* C27: every slot find_slots returns lies inside [range_start, range_end] and
\* inside the preferred hour window of its own day, (8, 20) unless the request
\* names other hours
C27_SlotsInsideRangeAndWindow ==
    fs_pc = "done" =>
        \A i \in DOMAIN fs_slots :
            LET slot == fs_slots[i]
                d == DayOf(slot.start)
            IN /\ fs_request.date_from <= slot.start
               /\ slot.end <= fs_request.date_to
               /\ At(d, WindowStartHour(fs_request), 0) <= slot.start
               /\ slot.end <= At(d, WindowEndHour(fs_request), 0)

\* a search from 19:45 with the default window: nothing fits before 20:00 on
\* day 0, the first slot is 08:00 of day 1
C27_Witness ==
    /\ fs_pc = "done"
    /\ fs_request.date_from = At(0, 19, 45)
    /\ fs_request.preferred_start = None
    /\ fs_request.preferred_end = None
    /\ fs_busy = <<>>
    /\ Len(fs_slots) >= 1
    /\ fs_slots[1].start = At(1, 8, 0)

\* C35: on the calendar it searched, no interval find_slots returned is
\* reported as a conflict by _detect_conflict, whatever the calendar holds
\* (timed, cancelled and all-day events)
C35_FoundSlotsHaveNoConflict ==
    fs_pc = "done" =>
        \A i \in DOMAIN fs_slots :
            IsNone(DetectConflict(calendar, fs_slots[i].start, fs_slots[i].end, None))

\* the data-model invariant of a slot search request: a positive duration, a
\* non-empty range and, if preferred hours are given, 0 <= start < end <= 24
ValidRequest(request) ==
    /\ request.duration_minutes > 0
    /\ request.date_from < request.date_to
    /\ (IsSome(request.preferred_start) /\ IsSome(request.preferred_end)) =>
           /\ 0 <= Val(request.preferred_start)
           /\ Val(request.preferred_start) < Val(request.preferred_end)
           /\ Val(request.preferred_end) <= 24

\* C20: for every request that satisfies the data-model invariant, the
\* preferred end hour 24 included, find_slots completes with a list
C20_ValidRequestCompletes ==
    (fs_pc \in {"done", "failed"} /\ ValidRequest(fs_request)) => fs_pc = "done"

----------------------------------------------------------------------------
(* find_slots step by step, one loop iteration at a time: the specification
   SpecLoop *)

LoopDurations == {0, 30, 90}
LoopRangeStarts == {At(0, 7, 0), At(0, 9, 15), At(1, 13, 0)}
LoopRangeEnds == {At(0, 9, 0)} \cup {At(d, 12, 0) : d \in 1..FsDays}
LoopWindows == {<<None, None>>, <<Some(8), Some(9)>>, <<Some(12), Some(9)>>, <<Some(21), Some(24)>>}

LoopRequests ==
    { [duration_minutes |-> d, date_from |-> f, date_to |-> t,
       preferred_start |-> w[1], preferred_end |-> w[2]] :
      d \in LoopDurations, f \in LoopRangeStarts, t \in LoopRangeEnds, w \in LoopWindows }

InitLoop ==
    /\ calendar \in FsCalendars
    /\ fs_request \in LoopRequests
    /\ fs_max \in {1, FsMaxSuggestions}
    /\ fs_busy = <<>>
    /\ fs_slots = <<>>
    /\ fs_pc = "call"
    /\ fs_loop = <<>>
    /\ series_db = <<>>
    /\ tasks = <<>>
    /\ next_id = 100
    /\ user_data = EmptyDict
    /\ turn = IdleTurn
    /\ turns_left = 0

loopFrame == <<calendar, next_id, user_data, turn, turns_left, fs_request, fs_max, series_db, tasks>>

\* a cursor that stays on its day
SameDay(cursor, day_start_hour) == ReplaceHour(cursor, day_start_hour)

\* next_day = (cursor + timedelta(days=1)).replace(hour=day_start_hour, minute=0, ...)
NextDay(cursor, day_start_hour) == ReplaceHour(cursor + DayMinutes, day_start_hour)

\* the preferred hours of the request, else 8 and 20
DayStartHour(request) ==
    IF IsSome(request.preferred_start) THEN Val(request.preferred_start) ELSE DefaultDayStartHour
DayEndHour(request) ==
    IF IsSome(request.preferred_end) THEN Val(request.preferred_end) ELSE DefaultDayEndHour

\* find_slots is entered: the busy intervals are fetched, cursor = start_bound
EnterFindSlots ==
    /\ fs_pc = "call"
    /\ fs_busy' = FetchBusyIntervals(calendar, fs_request.date_from, fs_request.date_to)
    /\ fs_loop' = [cursor |-> fs_request.date_from, day_end |-> 0, candidate_start |-> 0]
    /\ fs_pc' = "outer"
    /\ UNCHANGED <<loopFrame, fs_slots>>

\* the test of the outer while loop fails: return slots
ReturnSlots ==
    /\ fs_pc = "outer"
    /\ ~(fs_loop.cursor < fs_request.date_to /\ Len(fs_slots) < fs_max)
    /\ fs_pc' = "done"
    /\ UNCHANGED <<loopFrame, fs_busy, fs_slots, fs_loop>>

\* an outer iteration begins: the day's window is computed (replace raises
\* on an hour outside 0..23) and candidate_start is set
BeginDay ==
    /\ fs_pc = "outer"
    /\ fs_loop.cursor < fs_request.date_to /\ Len(fs_slots) < fs_max
    /\ IF ~HourValid(DayStartHour(fs_request)) \/ ~HourValid(DayEndHour(fs_request))
       THEN /\ fs_pc' = "failed"
            /\ UNCHANGED fs_loop
       ELSE LET day_start == Max(ReplaceHour(fs_loop.cursor, DayStartHour(fs_request)),
                                 fs_request.date_from)
                day_end == Min(ReplaceHour(fs_loop.cursor, DayEndHour(fs_request)),
                               fs_request.date_to)
            IN /\ fs_loop' = [fs_loop EXCEPT !.day_end = day_end,
                                             !.candidate_start = Max(fs_loop.cursor, day_start)]
               /\ fs_pc' = "inner"
    /\ UNCHANGED <<loopFrame, fs_busy, fs_slots>>

\* one pass of the inner while loop: its test, and if it holds the candidate
\* is taken (break), given up (break) or moved on by 30 minutes
TryCandidate ==
    /\ fs_pc = "inner"
    /\ LET candidate_start == fs_loop.candidate_start
           candidate_end == candidate_start + fs_request.duration_minutes
       IN IF candidate_end <= fs_loop.day_end
          THEN IF candidate_end > fs_request.date_to
               THEN fs_pc' = "next_day" /\ UNCHANGED <<fs_slots, fs_loop>>
               ELSE IF IsFree(candidate_start, candidate_end, fs_busy)
               THEN /\ fs_slots' = Append(fs_slots, FreeSlot(candidate_start, candidate_end))
                    /\ fs_pc' = "next_day"
                    /\ UNCHANGED fs_loop
               ELSE /\ fs_loop' = [fs_loop EXCEPT
                                      !.candidate_start = candidate_start + SlotStepMinutes]
                    /\ UNCHANGED <<fs_slots, fs_pc>>
          ELSE fs_pc' = "next_day" /\ UNCHANGED <<fs_slots, fs_loop>>
    /\ UNCHANGED <<loopFrame, fs_busy>>

\* the end of an outer iteration: cursor = max(next_day, start_bound)
AdvanceCursor ==
    /\ fs_pc = "next_day"
    /\ fs_loop' = [fs_loop EXCEPT
                      !.cursor = Max(NextDay(fs_loop.cursor, DayStartHour(fs_request)),
                                     fs_request.date_from)]
    /\ fs_pc' = "outer"
    /\ UNCHANGED <<loopFrame, fs_busy, fs_slots>>

NextLoop ==
    \/ EnterFindSlots
    \/ ReturnSlots
    \/ BeginDay
    \/ TryCandidate
    \/ AdvanceCursor

\* the interpreter keeps running the coroutine once the fetch has answered
SpecLoop == InitLoop /\ [][NextLoop]_vars /\ WF_vars(NextLoop)

\* find_slots has returned or raised
FindSlotsEnded == fs_pc \in {"done", "failed"}

\* C39: find_slots terminates for every request with a finite range: each
\* outer iteration ends with a day cursor strictly after the one it began
\* with, each inner iteration that continues moves the candidate start
\* strictly forward, the call returns only once the cursor has reached
\* range_end or max_suggestions slots are found, and every call ends
C39_FindSlotsTerminates ==
    /\ [][ /\ (fs_pc = "next_day" /\ fs_pc' = "outer") => fs_loop'.cursor > fs_loop.cursor
           /\ (fs_pc = "inner" /\ fs_pc' = "inner") =>
                  fs_loop'.candidate_start > fs_loop.candidate_start
           /\ fs_pc' = "done" =>
                  \/ fs_loop'.cursor >= fs_request.date_to
                  \/ Len(fs_slots') >= fs_max
                  \/ fs_pc = "done" ]_vars
    /\ <>FindSlotsEnded

\* a call returned after its cursor had gone through two days and its inner
\* loop had moved a candidate off the start of the day's window
C39_Witness ==
    /\ fs_pc = "done"
    /\ fs_loop.cursor >= At(2, 0, 0)
    /\ fs_request.date_from < At(1, 0, 0)
    /\ \E i \in DOMAIN fs_slots : MinuteOfDay(fs_slots[i].start) \notin {0, 420, 480, 555}

----------------------------------------------------------------------------
(* Creating events (app/bot/events.py) *)

DefaultStartMinuteOfDay == 540      \* "T09:00"
DefaultEventMinutes == 60
DEFAULT_REMINDER_MINUTES == 10

\* _build_event_times: the proposal's date with its start time (09:00 when
\* absent) and its end time or duration (60 minutes when absent or zero)
BuildEventTimes(event) ==
    IF IsNone(event.date) THEN None
    ELSE LET midnight == Val(event.date) * DayMinutes
             start_dt == midnight + (IF IsSome(event.start_time) THEN Val(event.start_time)
                                     ELSE DefaultStartMinuteOfDay)
             duration == IF IsSome(event.duration_minutes) /\ Val(event.duration_minutes) /= 0
                         THEN Val(event.duration_minutes) ELSE DefaultEventMinutes
             end_dt == IF IsSome(event.end_time) THEN midnight + Val(event.end_time)
                       ELSE start_dt + duration
         IN Some(<<start_dt, IF end_dt <= start_dt THEN start_dt + duration ELSE end_dt>>)

\* a consumption that removes the first slot but leaves awaiting_use as it
\* was (what C9 must tell apart from pick_slot_from_context)
PickSlotKeepAwaiting(ud, refers_to_last_slot) ==
    IF ~Has(ud, K_LAST_FREE_SLOTS) THEN [ud |-> ud, slot |-> None]
    ELSE IF ud[K_LAST_FREE_SLOTS].slots = <<>> THEN [ud |-> ud, slot |-> None]
    ELSE IF ~refers_to_last_slot /\ ~ud[K_LAST_FREE_SLOTS].awaiting_use
         THEN [ud |-> ud, slot |-> None]
    ELSE [ud |-> Pop(Put(ud, K_LAST_FREE_SLOTS,
                         [ud[K_LAST_FREE_SLOTS] EXCEPT !.slots = Tail(@)]),
                     FREE_SLOT_EXPECTATION_KEY),
          slot |-> Some(<<ud[K_LAST_FREE_SLOTS].slots[1].start,
                          ud[K_LAST_FREE_SLOTS].slots[1].end>>)]

\* pick_slot_from_context: the first remaining slot, consumed from the context
PickSlotFromContext(ud, refers_to_last_slot) ==
    IF ~Has(ud, K_LAST_FREE_SLOTS) THEN [ud |-> ud, slot |-> None]
    ELSE LET info == ud[K_LAST_FREE_SLOTS]
         IN IF info.slots = <<>> THEN [ud |-> ud, slot |-> None]
            ELSE IF ~refers_to_last_slot /\ ~info.awaiting_use THEN [ud |-> ud, slot |-> None]
            ELSE LET slot == info.slots[1]
                     remaining == Tail(info.slots)
                     updated == [info EXCEPT !.slots = remaining,
                                             !.awaiting_use = (remaining /= <<>>)]
                 IN [ud |-> Pop(Put(ud, K_LAST_FREE_SLOTS, updated), FREE_SLOT_EXPECTATION_KEY),
                     slot |-> Some(<<slot.start, slot.end>>)]

\* _build_reminders_payload: the proposal's minutes, else the default 10
BuildRemindersPayload(event) ==
    RemindersFromMinutes(IF IsSome(event.reminder_minutes) THEN event.reminder_minutes
                         ELSE Some(DEFAULT_REMINDER_MINUTES))

\* GoogleCalendarService.create_event: events.insert of the draft's fields
CreateEvent(cal, nid, draft) ==
    cal \cup {[id |-> nid, summary |-> draft.summary, start |-> draft.start, end |-> draft.end,
               status |-> "confirmed", conference |-> IsSome(draft.conference_data),
               colorId |-> draft.color_id, reminders |-> draft.reminders,
               description |-> draft.description, location |-> draft.location]}

\* _create_event_with_payload: insert, reply, remember the event
CreateEventWithPayload(ud, cal, nid, draft, fails) ==
    IF "create" \in fails
    THEN Outcome(ud, cal, nid, "create_failed", <<"create">>)
    ELSE Outcome(Pop(SetLastEventContext(SetLastEventQuery(ud, draft.summary), nid, draft.summary),
                     FREE_SLOT_EXPECTATION_KEY),
                 CreateEvent(cal, nid, draft), nid + 1, "created", <<"create">>)

\* the event_draft handle_create_event builds
EventDraft(event, start_dt, end_dt) ==
    [summary |-> Val(event.title),
     start |-> TimedPayload(start_dt),
     end |-> TimedPayload(end_dt),
     description |-> event.notes,
     location |-> event.location,
     recurrence |-> event.recurrence,
     conference_data |-> IF event.needs_meet THEN Some("createRequest") ELSE None,
     color_id |-> event.color_id,
     reminders |-> BuildRemindersPayload(event)]

\* handle_create_event once the conflict check has answered: keep the draft
\* with the blocking event, or create
CreateUnlessConflict(ud, cal, nid, event_draft, reply_text, conflict, fails) ==
    IF IsSome(conflict)
    THEN Outcome(SetPendingCreateConflict(ud, [draft |-> event_draft, conflict |-> Val(conflict),
                                               reply_text |-> reply_text]),
                 cal, nid, "create_conflict", <<"list">>)
    ELSE Prepend(<<"list">>, CreateEventWithPayload(ud, cal, nid, event_draft, fails))

\* handle_create_event once the interval is known (interval is None when
\* neither the proposal nor a remembered slot gave one)
CreateInInterval(ud, cal, nid, event, interval, from_slot, fails) ==
    IF IsNone(interval) \/ IsNone(event.title)
    THEN Outcome(ud, cal, nid, "missing_data", <<>>)
    ELSE IF "list" \in fails THEN Raised(ud, cal, nid, <<"list">>)
    ELSE CreateUnlessConflict(ud, cal, nid,
                              EventDraft(event, Val(interval)[1], Val(interval)[2]),
                              IF from_slot THEN <<"scheduled", Val(event.title), Val(interval)[1]>>
                              ELSE <<"analysis_reply">>,
                              DetectConflict(cal, Val(interval)[1], Val(interval)[2], None),
                              fails)

\* handle_create_event with what pick_slot_from_context returned
CreateWithPick(cal, nid, event, pick, fails) ==
    CreateInInterval(pick.ud, cal, nid, event, pick.slot, IsSome(pick.slot), fails)

\* handle_create_event
HandleCreateEvent(ud, cal, nid, event, refers_to_last_slot, fails) ==
    IF IsSome(BuildEventTimes(event))
    THEN CreateInInterval(ud, cal, nid, event, BuildEventTimes(event), FALSE, fails)
    ELSE CreateWithPick(cal, nid, event, PickSlotFromContext(ud, refers_to_last_slot), fails)

\* create_event_from_pending: the confirmed draft is created without a conflict check
CreateEventFromPending(ud, cal, nid, payload, fails) ==
    CreateEventWithPayload(ud, cal, nid, payload.draft, fails)

----------------------------------------------------------------------------
(* EventMutationEngine (app/bot/events.py, _apply_event_update) *)

\* a reading of the optional integer that takes only positive values as given
TruthyPositive(o) == IsSome(o) /\ Val(o) > 0

\* Python truthiness of an optional integer: present and non-zero
Truthy(o) == IsSome(o) /\ Val(o) /= 0

NoPatch ==
    [start |-> None, end |-> None, shift_minutes |-> None, duration_minutes |-> None,
     title |-> None, description |-> None, location |-> None]

\* a resolution in which a relative shift is applied even when an absolute
\* start is given
NewIntervalShiftWins(original_event, update_data, today) ==
    LET original_start == ParseGoogleDatetime(original_event.start)
        original_end == ParseGoogleDatetime(original_event.end)
        shifted == Truthy(update_data.shift_minutes)
        start1 == IF shifted THEN Some(Val(original_start) + Val(update_data.shift_minutes))
                  ELSE IF IsSome(update_data.start) THEN update_data.start
                  ELSE original_start
        end1 == Some(Val(start1) + (Val(original_end) - Val(original_start)))
        end2 == IF Truthy(update_data.duration_minutes)
                THEN Some(Val(start1) + Val(update_data.duration_minutes))
                ELSE end1
    IN [new_start |-> start1, new_end |-> end2,
        original_start |-> original_start, original_end |-> original_end]

\* the new (start, end) of _apply_event_update, each None when it stays unknown
NewInterval(original_event, update_data, today) ==
    LET original_start == ParseGoogleDatetime(original_event.start)
        original_end == ParseGoogleDatetime(original_event.end)
        has_absolute_time == IsSome(update_data.start)
        parsed_start == Val(update_data.start)
        start1 == IF has_absolute_time
                  THEN IF IsSome(original_start) /\ DayOf(parsed_start) = today
                          /\ DayOf(Val(original_start)) /= today
                       THEN Some(DayOf(Val(original_start)) * DayMinutes + MinuteOfDay(parsed_start))
                       ELSE Some(parsed_start)
                  ELSE original_start
        end1 == IF has_absolute_time /\ IsSome(original_start) /\ IsSome(original_end)
                   /\ IsNone(update_data.end)
                THEN Some(Val(start1) + (Val(original_end) - Val(original_start)))
                ELSE original_end
        end2 == IF IsSome(update_data.end) THEN update_data.end ELSE end1
        shifted == Truthy(update_data.shift_minutes) /\ IsSome(original_start)
                   /\ IsSome(original_end) /\ ~has_absolute_time
        start3 == IF shifted THEN Some(Val(original_start) + Val(update_data.shift_minutes))
                  ELSE start1
        end3 == IF shifted THEN Some(Val(original_end) + Val(update_data.shift_minutes))
                ELSE end2
        end4 == IF Truthy(update_data.duration_minutes) /\ IsSome(start3)
                THEN Some(Val(start3) + Val(update_data.duration_minutes))
                ELSE end3
    IN [new_start |-> start3, new_end |-> end4,
        original_start |-> original_start, original_end |-> original_end]

\* the keyword arguments _apply_event_update passes to update_event
UpdateKwargs(interval, update_data, add_meet, remove_meet, color_id, reminders, clear_reminders) ==
    [start |-> IF IsSome(interval.new_start) THEN Some(TimedPayload(Val(interval.new_start)))
               ELSE None,
     end |-> IF IsSome(interval.new_end) THEN Some(TimedPayload(Val(interval.new_end))) ELSE None,
     summary |-> update_data.title,
     description |-> update_data.description,
     location |-> update_data.location,
     conference_data |-> IF add_meet THEN Some("createRequest") ELSE None,
     remove_conference |-> remove_meet,
     color_id |-> color_id,
     reminders |-> reminders,
     clear_reminders |-> clear_reminders]

\* GoogleCalendarService.update_event: get the event, overwrite the given
\* fields, events.update
UpdateEvent(event, kwargs) ==
    [id |-> event.id,
     status |-> event.status,
     summary |-> IF IsSome(kwargs.summary) THEN Val(kwargs.summary) ELSE event.summary,
     start |-> IF IsSome(kwargs.start) THEN Val(kwargs.start) ELSE event.start,
     end |-> IF IsSome(kwargs.end) THEN Val(kwargs.end) ELSE event.end,
     description |-> IF IsSome(kwargs.description) THEN kwargs.description ELSE event.description,
     location |-> IF IsSome(kwargs.location) THEN kwargs.location ELSE event.location,
     conference |-> IF kwargs.remove_conference THEN FALSE
                    ELSE IF IsSome(kwargs.conference_data) THEN TRUE ELSE event.conference,
     colorId |-> IF IsSome(kwargs.color_id) THEN kwargs.color_id ELSE event.colorId,
     reminders |-> IF kwargs.clear_reminders
                   THEN Some([use_default |-> FALSE, overrides |-> <<>>])
                   ELSE IF IsSome(kwargs.reminders) THEN kwargs.reminders ELSE event.reminders]

\* the condition under which _apply_event_update consults the ConflictDetector
ConsultsDetector(interval, update_data, ignore_conflicts) ==
    /\ ~ignore_conflicts
    /\ IsSome(interval.new_start)
    /\ IsSome(interval.new_end)
    /\ (~Truthy(update_data.shift_minutes) \/ Val(update_data.shift_minutes) /= 0)

\* the end of _apply_event_update: the conflict check when it is due, then
\* update_event; "updated" with the new backend, "conflict" with the blocking
\* event (UpdateConflictDetected), or "error" (any other exception)
CheckAndCommit(cal, event_id, interval, kwargs, consult, fails) ==
    LET conflict == IF consult /\ "list" \notin fails
                    THEN DetectConflict(cal, Val(interval.new_start), Val(interval.new_end),
                                        Some(event_id))
                    ELSE None
        pre == IF consult THEN <<"list">> ELSE <<>>
        updated == UpdateEvent(EventById(cal, event_id), kwargs)
    IN IF consult /\ "list" \in fails
       THEN [kind |-> "error", cal |-> cal, conflict |-> None, calls |-> pre, event |-> None]
       ELSE IF IsSome(conflict)
       THEN [kind |-> "conflict", cal |-> cal, conflict |-> conflict, calls |-> pre,
             event |-> None]
       ELSE IF "update" \in fails \/ ~HasEvent(cal, event_id)
       THEN [kind |-> "error", cal |-> cal, conflict |-> None, calls |-> pre \o <<"update">>,
             event |-> None]
       ELSE [kind |-> "updated", cal |-> (cal \ {EventById(cal, event_id)}) \cup {updated},
             conflict |-> None, calls |-> pre \o <<"update">>, event |-> Some(updated)]

\* _apply_event_update with the interval it computed
ApplyWithInterval(cal, event_id, interval, update_data, add_meet, remove_meet, color_id, reminders, clear_reminders, ignore_conflicts, fails) ==
    CheckAndCommit(cal, event_id, interval,
                   UpdateKwargs(interval, update_data, add_meet, remove_meet, color_id,
                                reminders, clear_reminders),
                   ConsultsDetector(interval, update_data, ignore_conflicts), fails)

\* _apply_event_update
ApplyEventUpdate(cal, event_id, original_event, update_data, add_meet, remove_meet, color_id, reminders, clear_reminders, ignore_conflicts, today, fails) ==
    ApplyWithInterval(cal, event_id, NewInterval(original_event, update_data, today),
                      update_data, add_meet, remove_meet, color_id, reminders, clear_reminders,
                      ignore_conflicts, fails)

\* what _apply_event_update was called with (kept beside the outcome of a turn)
Applied(event_id, plan, ignore_conflicts, consulted) ==
    Some([event_id |-> event_id, update |-> plan, ignore_conflicts |-> ignore_conflicts,
          consulted |-> consulted])

\* EventUpdatePayload.has_effect
HasEffect(plan) ==
    \/ \E f \in DOMAIN plan.patch : IsSome(plan.patch[f])
    \/ plan.add_meet
    \/ plan.remove_meet
    \/ IsSome(plan.color_id)
    \/ IsSome(plan.reminder_minutes)

\* a request passed on as it came, with both Meet flags when both were asked for
KeepBothMeetFlags(plan) == plan

\* the request as the handlers normalise it: Meet add and remove together mean remove
NormalisePlan(plan) ==
    [plan EXCEPT !.add_meet = plan.add_meet /\ ~plan.remove_meet]

\* what handle_event_update and handle_event_update_by_id do with the result
\* of _apply_event_update: report success, keep the conflict, or report failure
ReportUpdate(ud, cal, nid, event_id, event, plan, res) ==
    LET applied == Applied(event_id, plan, FALSE, res.calls /= <<>> /\ res.calls[1] = "list")
        summary == Val(res.event).summary
        left == CASE res.kind = "updated" ->
                         Outcome(SetLastEventQuery(
                                     SetLastEventContext(Pop(ud, FREE_SLOT_EXPECTATION_KEY),
                                                         event_id, summary),
                                     summary),
                                 res.cal, nid, "updated", res.calls)
                  [] res.kind = "conflict" ->
                         Outcome(SetPendingUpdateConflict(
                                     ud, [event_id |-> event_id, update |-> plan,
                                          original_event |-> event,
                                          conflict |-> Val(res.conflict)]),
                                 cal, nid, "update_conflict", res.calls)
                  [] OTHER -> Outcome(ud, cal, nid, "update_failed", res.calls)
    IN [left EXCEPT !.applied = applied]

\* the try block shared by handle_event_update (one match) and handle_event_update_by_id
ApplyAndReport(ud, cal, nid, event_id, event, plan, today, fails) ==
    ReportUpdate(ud, cal, nid, event_id, event, plan,
                 ApplyEventUpdate(cal, event_id, event, plan.patch, plan.add_meet,
                                  plan.remove_meet, plan.color_id,
                                  RemindersFromMinutes(plan.reminder_minutes),
                                  plan.reminder_minutes = Some(0), FALSE, today, fails))

\* _normalize_keywords on the words of the model: a trailing vowel is cut off
\* ("zvitu" stands for «звіту», "zvit" for «звіт», "yoha" for «йога»)
NormalizeKeywords(text) ==
    CASE text = "zvitu" -> "zvit"
      [] text = "yoha" -> "yoh"
      [] OTHER -> text

SearchMaxResults == 10
ListMaxItems == 5

\* _search_events_with_fallback: the keywords, then their normalised form
SearchEventsWithFallback(cal, keywords) ==
    LET first == SearchEvents(cal, keywords, SearchMaxResults)
        normalized == NormalizeKeywords(keywords)
        second == SearchEvents(cal, normalized, SearchMaxResults)
    IN IF first /= <<>> THEN [events |-> first, used_query |-> keywords, calls |-> <<"search">>]
       ELSE IF normalized = keywords
            THEN [events |-> <<>>, used_query |-> keywords, calls |-> <<"search">>]
       ELSE IF second /= <<>>
            THEN [events |-> second, used_query |-> normalized, calls |-> <<"search", "search">>]
       ELSE [events |-> <<>>, used_query |-> keywords, calls |-> <<"search", "search">>]

\* PendingDeleteItem / PendingUpdateListItem of an event
ListItem(e) == [event_id |-> e.id, summary |-> e.summary, start |-> e.start]

\* handle_event_update
HandleEventUpdate(ud, cal, nid, query_keywords, raw_plan, today, fails) ==
    LET ud1 == Pop(ud, K_PENDING_UPDATE_DETAIL)
        keywords == IF query_keywords /= "" THEN query_keywords ELSE GetLastEventQuery(ud1)
        found == SearchEventsWithFallback(cal, keywords)
        ud2 == SetLastEventQuery(ud1, found.used_query)
        plan == NormalisePlan(raw_plan)
    IN IF keywords = "" THEN Outcome(ud1, cal, nid, "clarify_which", <<>>)
       ELSE IF "search" \in fails THEN Raised(ud1, cal, nid, <<"search">>)
       ELSE IF found.events = <<>> THEN Outcome(ud1, cal, nid, "not_found", found.calls)
       ELSE IF ~HasEffect(plan)
            THEN Outcome(Put(ud2, K_PENDING_UPDATE_DETAIL, [keywords |-> keywords]),
                         cal, nid, "clarify_what", found.calls)
       ELSE IF Len(found.events) = 1
            THEN Prepend(found.calls,
                         ApplyAndReport(ud2, cal, nid, found.events[1].id, found.events[1],
                                        plan, today, fails))
       ELSE LET update_items == [i \in 1..Min(Len(found.events), ListMaxItems) |->
                                     ListItem(found.events[i])]
            IN Outcome(Put(ud2, K_PENDING_UPDATE_LIST,
                           [items |-> update_items, update_data |-> plan]),
                       cal, nid, "choose_update", found.calls)

\* handle_event_update_by_id (the text adds nothing to the request it came from)
HandleEventUpdateById(ud, cal, nid, event_id, raw_plan, today, fails) ==
    IF "get" \in fails \/ ~HasEvent(cal, event_id)
    THEN Outcome(ud, cal, nid, "event_not_found", <<"get">>)
    ELSE Prepend(<<"get">>,
                 ApplyAndReport(ud, cal, nid, event_id, EventById(cal, event_id),
                                NormalisePlan(raw_plan), today, fails))

\* what apply_update_from_pending_conflict does with the result of _apply_event_update
ReportConfirmedUpdate(ud, cal, nid, payload, res) ==
    LET applied == Applied(payload.event_id, payload.update, TRUE,
                           res.calls /= <<>> /\ res.calls[1] = "list")
        summary == Val(res.event).summary
        left == IF res.kind = "updated"
                THEN Outcome(SetLastEventQuery(
                                 SetLastEventContext(ud, payload.event_id, summary), summary),
                             res.cal, nid, "updated", res.calls)
                ELSE Outcome(ud, cal, nid, "update_failed", res.calls)
    IN [left EXCEPT !.applied = applied]

\* apply_update_from_pending_conflict: the stored patch, conflicts ignored
ApplyUpdateFromPendingConflict(ud, cal, nid, payload, today, fails) ==
    ReportConfirmedUpdate(ud, cal, nid, payload,
        ApplyEventUpdate(cal, payload.event_id, payload.original_event, payload.update.patch,
                         payload.update.add_meet, payload.update.remove_meet,
                         payload.update.color_id,
                         RemindersFromMinutes(payload.update.reminder_minutes),
                         payload.update.reminder_minutes = Some(0), TRUE, today, fails))

----------------------------------------------------------------------------
(* Deleting, looking up, agenda (app/bot/events.py) *)

\* handle_event_delete
HandleEventDelete(ud, cal, nid, query_keywords, fails) ==
    LET keywords == IF query_keywords /= "" THEN query_keywords ELSE GetLastEventQuery(ud)
        found == SearchEventsWithFallback(cal, keywords)
        ud1 == SetLastEventQuery(ud, found.used_query)
    IN IF keywords = "" THEN Outcome(ud, cal, nid, "clarify_which", <<>>)
       ELSE IF "search" \in fails THEN Raised(ud, cal, nid, <<"search">>)
       ELSE IF found.events = <<>> THEN Outcome(ud, cal, nid, "not_found", found.calls)
       ELSE IF Len(found.events) = 1
            THEN Outcome(Put(ud1, K_PENDING_DELETE, ListItem(found.events[1])),
                         cal, nid, "confirm_delete", found.calls)
       ELSE Outcome(Put(ud1, K_PENDING_DELETE_LIST,
                        [i \in 1..Min(Len(found.events), ListMaxItems) |-> ListItem(found.events[i])]),
                    cal, nid, "choose_delete", found.calls)

\* handle_event_lookup / handle_event_lookup_direct (keywords of two letters or more)
HandleEventLookup(ud, cal, nid, keywords, fails) ==
    LET found == SearchEventsWithFallback(cal, keywords)
        first_event == found.events[1]
    IN IF keywords = "" THEN Outcome(ud, cal, nid, "clarify_which", <<>>)
       ELSE IF "search" \in fails THEN Raised(ud, cal, nid, <<"search">>)
       ELSE IF found.events = <<>> THEN Outcome(ud, cal, nid, "not_found", found.calls)
       ELSE Outcome(SetLastEventContext(SetLastEventQuery(ud, found.used_query),
                                        first_event.id, first_event.summary),
                    cal, nid, "found", found.calls)

AgendaMaxResults == 50
LastMinuteOfDay == 1439     \* 23:59

\* build_window_range for the "full" window: 00:00 to 23:59 of the day
BuildWindowRange(day) == <<day * DayMinutes, day * DayMinutes + LastMinuteOfDay>>

\* handle_agenda / handle_agenda_button for a day, full window
HandleAgenda(ud, cal, nid, day, fails) ==
    LET range == BuildWindowRange(day)
        events == ListEventsBetween(cal, range[1], range[2], AgendaMaxResults)
        ud1 == IF events /= <<>> THEN SetLastEventContext(ud, events[1].id, events[1].summary)
               ELSE ud
    IN IF "list" \in fails THEN Raised(ud, cal, nid, <<"list">>)
       ELSE Outcome(Put(ud1, K_AGENDA, [date |-> day, time_window |-> "full"]),
                    cal, nid, "agenda", <<"list">>)

----------------------------------------------------------------------------
(* Free-slot dialogue (app/bot/free_slots.py) *)

SlotBufferMinutes == 15

\* _resolve_preferred_hours without an explicit "from..to" range in the text
ResolvePreferredHours(preferred_window, fallback_start, fallback_end) ==
    CASE preferred_window = Some("morning") -> <<Some(6), Some(12)>>
      [] preferred_window = Some("day") -> <<Some(12), Some(18)>>
      [] preferred_window = Some("evening") -> <<Some(18), Some(22)>>
      [] preferred_window = Some("night") -> <<Some(21), Some(24)>>
      [] OTHER -> <<fallback_start, fallback_end>>

\* the clock of the model: every turn happens on day Today at 09:00
Today == 0
Now == At(Today, 9, 0)

DefaultRangeDays == 7

\* _extract_date_range: the message's dates, else the remembered request's,
\* else from now for a week; an end that is not after the start becomes start + 1 day
ExtractDateRange(query, last_request) ==
    LET start0 == IF IsSome(query.date_from) THEN query.date_from
                  ELSE IF IsSome(last_request) THEN Some(Val(last_request).date_from) ELSE None
        end0 == IF IsSome(query.date_to) THEN query.date_to
                ELSE IF IsSome(last_request) THEN Some(Val(last_request).date_to) ELSE None
        start == IF IsSome(start0) THEN Val(start0) ELSE Now
        end == IF IsSome(end0) THEN Val(end0) ELSE Now + DefaultRangeDays * DayMinutes
    IN <<start, IF end <= start THEN start + DayMinutes ELSE end>>

\* the request handle_free_slots falls back on: the pending one, else the last one
FallbackRequest(ud) ==
    IF Has(ud, K_PENDING_FREE_SLOT) THEN Some(ud[K_PENDING_FREE_SLOT].request)
    ELSE IF Has(ud, K_LAST_FREE_SLOTS) THEN Some(ud[K_LAST_FREE_SLOTS].request)
    ELSE None

\* the request handle_free_slots searches with and remembers
SlotRequest(query, fallback_request) ==
    LET range == ExtractDateRange(query, fallback_request)
        preferred_window == IF IsSome(query.preferred_window) THEN query.preferred_window
                            ELSE IF IsSome(fallback_request)
                                 THEN Val(fallback_request).preferred_window ELSE None
        hours == ResolvePreferredHours(
                     preferred_window,
                     IF IsSome(fallback_request) THEN Val(fallback_request).preferred_start ELSE None,
                     IF IsSome(fallback_request) THEN Val(fallback_request).preferred_end ELSE None)
    IN [duration |-> Val(query.duration), date_from |-> range[1], date_to |-> range[2],
        preferred_window |-> preferred_window, preferred_start |-> hours[1],
        preferred_end |-> hours[2]]

\* the FreeSlotRequest built from a remembered request and a range
FinderRequest(req, date_from, date_to) ==
    [duration_minutes |-> req.duration, date_from |-> date_from, date_to |-> date_to,
     preferred_start |-> req.preferred_start, preferred_end |-> req.preferred_end]

\* handle_free_slots after the search: remember the slots and where to continue
ReportSlots(ud, cal, nid, req, found, fails) ==
    IF "list" \in fails \/ found.error THEN Raised(ud, cal, nid, <<"list">>)
    ELSE Outcome(PopAll(Put(ud, K_LAST_FREE_SLOTS,
                            [slots |-> found.slots,
                             request |-> [duration |-> req.duration,
                                          date_from |-> req.date_from,
                                          date_to |-> req.date_to,
                                          preferred_window |-> req.preferred_window,
                                          preferred_start |-> req.preferred_start,
                                          preferred_end |-> req.preferred_end,
                                          next_start |->
                                              IF found.slots /= <<>>
                                              THEN found.slots[Len(found.slots)].end
                                                   + SlotBufferMinutes
                                              ELSE req.date_from,
                                          cursor_history |-> <<req.date_from>>],
                             awaiting_use |-> (found.slots /= <<>>)]),
                        {K_PENDING_FREE_SLOT, FREE_SLOT_EXPECTATION_KEY}),
                 cal, nid, IF found.slots /= <<>> THEN "slots" ELSE "no_slots", <<"list">>)

\* handle_free_slots with the request it built
SearchSlots(ud, cal, nid, req, fails) ==
    ReportSlots(ud, cal, nid, req,
                FindSlots(cal, FinderRequest(req, req.date_from, req.date_to),
                          DefaultMaxSuggestions),
                fails)

\* handle_free_slots
HandleFreeSlots(ud, cal, nid, query, fails) ==
    LET temp_range == ExtractDateRange(query, None)
        temp_hours == ResolvePreferredHours(query.preferred_window, None, None)
    IN IF IsNone(query.duration)
       THEN Outcome(Put(Put(ud, K_PENDING_FREE_SLOT,
                            [request |-> [date_from |-> temp_range[1], date_to |-> temp_range[2],
                                          preferred_window |-> query.preferred_window,
                                          preferred_start |-> temp_hours[1],
                                          preferred_end |-> temp_hours[2]]]),
                        FREE_SLOT_EXPECTATION_KEY, TRUE),
                    cal, nid, "ask_duration", <<>>)
       ELSE SearchSlots(ud, cal, nid, SlotRequest(query, FallbackRequest(ud)), fails)

\* a navigation whose later range starts where the shown page ends, without
\* the buffer, and whose earlier range always comes from the history
MoreSlotsRangeFromPageEnd(info, direction) ==
    LET req == info.request
        history == req.cursor_history
        n == Len(history)
        range(date_from, date_to, history_next) ==
            IF date_from >= date_to THEN None
            ELSE Some([date_from |-> date_from, date_to |-> date_to,
                       history_next |-> history_next])
    IN IF direction = "earlier"
       THEN IF n <= 1 THEN None
            ELSE range(history[n - 1], history[n] - SlotBufferMinutes, SubSeq(history, 1, n - 1))
       ELSE range(req.next_start - SlotBufferMinutes, req.date_to,
                  Append(history, req.next_start - SlotBufferMinutes))

\* the range handle_more_free_slots searches next, None when it replies that
\* there is nothing earlier or later
MoreSlotsRange(info, direction) ==
    LET req == info.request
        history == req.cursor_history
        n == Len(history)
        range(date_from, date_to, history_next) ==
            IF date_from >= date_to THEN None
            ELSE Some([date_from |-> date_from, date_to |-> date_to,
                       history_next |-> history_next])
    IN IF direction = "earlier"
       THEN IF n <= 1
            THEN IF info.slots /= <<>>
                 THEN range(req.date_from, info.slots[1].start - SlotBufferMinutes, history)
                 ELSE None
            ELSE range(history[n - 1], history[n] - SlotBufferMinutes, SubSeq(history, 1, n - 1))
       ELSE range(req.next_start, req.date_to, Append(history, req.next_start))

\* handle_more_free_slots after the search: replace the context, or on an
\* empty later range only move next_start
ReportMoreSlots(ud, cal, nid, direction, info, range, found, fails) ==
    IF "list" \in fails \/ found.error THEN Raised(ud, cal, nid, <<"list">>)
    ELSE IF found.slots = <<>>
    THEN IF direction = "earlier"
         THEN Outcome(ud, cal, nid, "nothing_earlier", <<"list">>)
         ELSE Outcome(Put(ud, K_LAST_FREE_SLOTS,
                          [slots |-> info.slots,
                           request |-> [info.request EXCEPT !.next_start = range.date_to],
                           awaiting_use |-> info.awaiting_use]),
                      cal, nid, "nothing_later", <<"list">>)
    ELSE Outcome(Put(ud, K_LAST_FREE_SLOTS,
                     [slots |-> found.slots,
                      request |-> [info.request EXCEPT
                          !.next_start = found.slots[Len(found.slots)].end + SlotBufferMinutes,
                          !.cursor_history = range.history_next],
                      awaiting_use |-> (found.slots /= <<>>)]),
                 cal, nid, "slots", <<"list">>)

\* handle_more_free_slots with the range to search, None when there is none
SearchMoreSlots(ud, cal, nid, direction, info, range, fails) ==
    IF IsNone(range) THEN Outcome(ud, cal, nid, "nothing_" \o direction, <<>>)
    ELSE ReportMoreSlots(ud, cal, nid, direction, info, Val(range),
                         FindSlots(cal, FinderRequest(info.request, Val(range).date_from,
                                                      Val(range).date_to),
                                   DefaultMaxSuggestions),
                         fails)

\* handle_more_free_slots
HandleMoreFreeSlots(ud, cal, nid, direction, fails) ==
    IF ~Has(ud, K_LAST_FREE_SLOTS) THEN Outcome(ud, cal, nid, "ask_window_first", <<>>)
    ELSE SearchMoreSlots(ud, cal, nid, direction, ud[K_LAST_FREE_SLOTS],
                         MoreSlotsRange(ud[K_LAST_FREE_SLOTS], direction), fails)

----------------------------------------------------------------------------
(* Inline buttons (app/bot/handlers.py, handle_callback_query) *)

\* GoogleCalendarService.delete_event
DeleteEvent(cal, event_id) == {e \in cal : e.id /= event_id}

\* the confirm_delete button
ConfirmDelete(ud, cal, nid, fails) ==
    IF ~Has(ud, K_PENDING_DELETE) THEN Outcome(ud, cal, nid, "state_loss", <<>>)
    ELSE LET pending == ud[K_PENDING_DELETE]
             ok == "delete" \notin fails /\ HasEvent(cal, pending.event_id)
         IN Outcome(Pop(ud, K_PENDING_DELETE),
                    IF ok THEN DeleteEvent(cal, pending.event_id) ELSE cal,
                    nid, IF ok THEN "deleted" ELSE "delete_failed", <<"delete">>)

\* items[idx] of a Python list: a negative idx counts from the end
PyItem(items, idx) == IF idx >= 0 THEN items[idx + 1] ELSE items[Len(items) + idx + 1]

\* items[idx] raises IndexError
PyIndexError(items, idx) == idx >= Len(items) \/ idx < -Len(items)

\* a delete_<idx> button (idx counted from 0)
DeleteIndex(ud, cal, nid, idx) ==
    LET pending_list == IF Has(ud, K_PENDING_DELETE_LIST) THEN ud[K_PENDING_DELETE_LIST] ELSE <<>>
    IN IF idx >= Len(pending_list) THEN Outcome(ud, cal, nid, "state_loss", <<>>)
       ELSE IF PyIndexError(pending_list, idx) THEN Raised(ud, cal, nid, <<>>)
       ELSE Outcome(Put(ud, K_PENDING_DELETE, PyItem(pending_list, idx)),
                    cal, nid, "confirm_delete", <<>>)

\* the cancel_delete button
CancelDelete(ud, cal, nid) ==
    Outcome(PopAll(ud, {K_PENDING_DELETE, K_PENDING_DELETE_LIST}), cal, nid, "delete_cancelled", <<>>)

\* an update_<idx> button
UpdateIndex(ud, cal, nid, idx, today, fails) ==
    LET ud1 == Pop(ud, K_PENDING_UPDATE_DETAIL)
    IN IF ~Has(ud, K_PENDING_UPDATE_LIST) \/ idx >= Len(ud[K_PENDING_UPDATE_LIST].items)
       THEN Outcome(ud1, cal, nid, "state_loss", <<>>)
       ELSE IF PyIndexError(ud[K_PENDING_UPDATE_LIST].items, idx) THEN Raised(ud1, cal, nid, <<>>)
       ELSE ThenPop(HandleEventUpdateById(ud1, cal, nid,
                                          PyItem(ud[K_PENDING_UPDATE_LIST].items, idx).event_id,
                                          ud[K_PENDING_UPDATE_LIST].update_data, today, fails),
                    {K_PENDING_UPDATE_LIST, K_PENDING_UPDATE_DATA})

\* the cancel_update button
CancelUpdate(ud, cal, nid) ==
    Outcome(PopAll(ud, {K_PENDING_UPDATE_LIST, K_PENDING_UPDATE_DATA}), cal, nid,
            "update_cancelled", <<>>)

\* the conflict_confirm button: a pending create first, else a pending update
ConflictConfirm(ud, cal, nid, today, fails) ==
    LET create_pop == PopPendingCreateConflict(ud)
        update_pop == PopPendingUpdateConflict(create_pop.ud)
    IN IF IsSome(create_pop.value)
       THEN CreateEventFromPending(create_pop.ud, cal, nid, Val(create_pop.value), fails)
       ELSE IF IsSome(update_pop.value)
       THEN ApplyUpdateFromPendingConflict(update_pop.ud, cal, nid, Val(update_pop.value),
                                           today, fails)
       ELSE Outcome(update_pop.ud, cal, nid, "state_loss", <<>>)

\* the conflict_cancel button
ConflictCancel(ud, cal, nid) ==
    LET create_pop == PopPendingCreateConflict(ud)
        update_pop == PopPendingUpdateConflict(create_pop.ud)
    IN Outcome(update_pop.ud, cal, nid,
               IF IsSome(create_pop.value) \/ IsSome(update_pop.value)
               THEN "conflict_cancelled" ELSE "state_loss",
               <<>>)

----------------------------------------------------------------------------
(* Text messages (app/bot/handlers.py, fallback) *)

\* A text message is described by what fallback and the analysers read off it:
\* whether should_reset_context recognises it, which menu button or navigation
\* word it carries, and Gemini's analysis (intent, event proposal, metadata).
\* Messages for the habit, series, analytics and reminder shortcuts are not
\* among the inputs.
NoPlan ==
    [patch |-> NoPatch, add_meet |-> FALSE, remove_meet |-> FALSE, color_id |-> None,
     reminder_minutes |-> None]

NoQuery == [duration |-> None, date_from |-> None, date_to |-> None, preferred_window |-> None]

NoEvent ==
    [title |-> None, date |-> None, start_time |-> None, end_time |-> None,
     duration_minutes |-> None, notes |-> None, location |-> None, recurrence |-> None,
     needs_meet |-> FALSE, color_id |-> None, reminder_minutes |-> None]

BaseMessage ==
    [reset |-> FALSE, button |-> "none", nav |-> "none", general |-> FALSE,
     refers_to_last_event |-> FALSE, refers_to_last_slot |-> FALSE,
     intent |-> "small_talk", event |-> None, keywords |-> "", text |-> "",
     plan |-> NoPlan, day |-> None, query |-> NoQuery]

\* infer_update_data_from_text: what the text alone says about the change
\* (start or shift, duration, reminder, Meet); titles and colours come from
\* the analysis only
InferUpdateDataFromText(plan) ==
    [plan EXCEPT !.patch = [plan.patch EXCEPT !.end = None, !.title = None,
                                              !.description = None, !.location = None],
                 !.color_id = None]

\* IntentRouter.route catches what a handler raises; fallback then sends
\* the analysis' own reply
Caught(out) == IF out.raised THEN [out EXCEPT !.raised = FALSE, !.reply = "analysis_reply"] ELSE out

\* IntentRouter.route with the handlers of create_router: the handler's
\* outcome, or the analysis' own reply when no handler took the message
Route(ud, cal, nid, intent, msg, fails) ==
    Caught(CASE intent = "create_event" /\ IsSome(msg.event) ->
                    HandleCreateEvent(ud, cal, nid, Val(msg.event), msg.refers_to_last_slot, fails)
             [] intent = "event_update" ->
                    HandleEventUpdate(ud, cal, nid, msg.keywords, msg.plan, Today, fails)
             [] intent = "event_delete" ->
                    HandleEventDelete(ud, cal, nid, msg.keywords, fails)
             [] intent = "event_lookup" ->
                    HandleEventLookup(ud, cal, nid,
                                      IF msg.keywords /= "" THEN msg.keywords ELSE msg.text, fails)
             [] intent = "agenda_day" /\ IsSome(msg.day) ->
                    HandleAgenda(ud, cal, nid, Val(msg.day), fails)
             [] intent = "find_free_slot" ->
                    HandleFreeSlots(ud, cal, nid, msg.query, fails)
             [] OTHER -> Outcome(ud, cal, nid, "analysis_reply", <<>>))

\* fallback after the reset check, the pending-detail flow and the menu buttons
Dispatch(ud, cal, nid, msg, fails) ==
    LET expecting_window == Has(ud, FREE_SLOT_EXPECTATION_KEY)
        expecting_event == Has(ud, K_EXPECTING_EVENT)
        expecting_search == Has(ud, K_EXPECTING_SEARCH)
        ud1 == PopAll(ud, {K_EXPECTING_EVENT, K_EXPECTING_SEARCH})
        last_event == Get(ud1, K_LAST_EVENT)
        inferred_update == InferUpdateDataFromText(msg.plan)
        intent == IF expecting_window THEN "find_free_slot"
                  ELSE IF expecting_event THEN "create_event"
                  ELSE msg.intent
    IN IF Has(ud1, K_LAST_FREE_SLOTS) /\ msg.nav /= "none"
       THEN HandleMoreFreeSlots(ud1, cal, nid, msg.nav, fails)
       ELSE IF expecting_search THEN HandleEventLookup(ud1, cal, nid, msg.text, fails)
       ELSE IF msg.refers_to_last_event /\ IsSome(last_event) /\ HasEffect(inferred_update)
            THEN HandleEventUpdateById(ud1, cal, nid, Val(last_event).event_id,
                                       inferred_update, Today, fails)
       ELSE Route(ud1, cal, nid, intent, msg, fails)

\* the menu-button texts
MenuButton(ud, cal, nid, msg, fails) ==
    CASE msg.button = "today" ->
             HandleAgenda(Put(ud, K_EXPECTING_AGENDA, "today"), cal, nid, Today, fails)
      [] msg.button = "tomorrow" ->
             HandleAgenda(Put(ud, K_EXPECTING_AGENDA, "tomorrow"), cal, nid, Today + 1, fails)
      [] msg.button = "find_time" ->
             Outcome(Put(ud, FREE_SLOT_EXPECTATION_KEY, TRUE), cal, nid, "prompt_window", <<>>)
      [] msg.button = "plan_event" ->
             Outcome(Put(ud, K_EXPECTING_EVENT, TRUE), cal, nid, "prompt_event", <<>>)
      [] msg.button = "search" ->
             Outcome(Put(ud, K_EXPECTING_SEARCH, TRUE), cal, nid, "prompt_search", <<>>)

\* fallback: the handler of every text message
Fallback(ud, cal, nid, msg, fails) ==
    LET inferred_update == InferUpdateDataFromText(msg.plan)
        detail_flow == Has(ud, K_PENDING_UPDATE_DETAIL) /\ ~msg.general
        ud1 == Pop(ud, K_PENDING_UPDATE_DETAIL)
    IN IF msg.reset THEN Outcome(ResetUserContext(ud, {}), cal, nid, "reset", <<>>)
       ELSE IF detail_flow /\ ~HasEffect(inferred_update)
            THEN Outcome(ud, cal, nid, "unclear_update", <<>>)
       ELSE IF detail_flow
            THEN HandleEventUpdate(ud1, cal, nid, ud[K_PENDING_UPDATE_DETAIL].keywords,
                                   inferred_update, Today, fails)
       ELSE IF msg.button /= "none" THEN MenuButton(ud1, cal, nid, msg, fails)
       ELSE Dispatch(ud1, cal, nid, msg, fails)

----------------------------------------------------------------------------
(* The conversation of one user with the bot *)

MaxTurns == 3        \* turns of a run of Spec
MaxListTurns == 4    \* turns of a run of SpecLists
MaxNavTurns == 4     \* turns of a run of SpecNav
MaxCreated == 2      \* events inserted in one run
FirstNewId == 100

\* the calendar the conversation starts with: "yoha" and the first "zvit"
\* overlap, "obid" is a cancelled event the backend still lists
SeedCalendar ==
    { TimedEvent(1, "yoha", At(0, 10, 15), At(0, 10, 45)),
      TimedEvent(2, "zvit", At(0, 10, 30), At(0, 11, 30)),
      TimedEvent(3, "zvit", At(1, 10, 0), At(1, 11, 0)),
      Event(4, "obid", TimedPayload(At(0, 13, 0)), TimedPayload(At(0, 14, 0)), "cancelled") }

InitBot(turns) ==
    /\ calendar = SeedCalendar
    /\ next_id = FirstNewId
    /\ user_data = EmptyDict
    /\ turn = IdleTurn
    /\ turns_left = turns
    /\ fs_request = IdleRequest
    /\ fs_busy = <<>>
    /\ fs_max = DefaultMaxSuggestions
    /\ fs_slots = <<>>
    /\ fs_pc = "idle"
    /\ fs_loop = <<>>
    /\ series_db = <<>>
    /\ tasks = <<>>

\* event proposals of create messages: 10:00-10:30 with Meet (runs into
\* "yoha"), 13:00 for the default hour (only the cancelled "obid" is there),
\* and one without date and time ("do it there")
ClashingProposal ==
    [NoEvent EXCEPT !.title = Some("sync"), !.date = Some(0), !.start_time = Some(600),
                    !.duration_minutes = Some(30), !.needs_meet = TRUE]
FreeProposal == [NoEvent EXCEPT !.title = Some("sync"), !.date = Some(0), !.start_time = Some(780)]
UndatedProposal == [NoEvent EXCEPT !.title = Some("sync")]

\* update requests: a move to 11:00 with Meet, colour and reminder, a new
\* title, a shift by three hours, and a request that names no change
MovePlan ==
    [NoPlan EXCEPT !.patch = [NoPatch EXCEPT !.start = Some(At(Today, 11, 0))],
                   !.add_meet = TRUE, !.color_id = Some("5"), !.reminder_minutes = Some(15)]
TitlePlan == [NoPlan EXCEPT !.patch = [NoPatch EXCEPT !.title = Some("plan")]]
ShiftPlan == [NoPlan EXCEPT !.patch = [NoPatch EXCEPT !.shift_minutes = Some(180)]]
Plans == {MovePlan, TitlePlan, ShiftPlan, NoPlan}

SlotQueries ==
    { [duration |-> Some(60), date_from |-> Some(At(0, 10, 0)), date_to |-> Some(At(1, 12, 0)),
       preferred_window |-> None],
      [duration |-> Some(30), date_from |-> Some(At(0, 10, 0)), date_to |-> Some(At(0, 12, 0)),
       preferred_window |-> Some("morning")],
      [duration |-> Some(30), date_from |-> Some(At(0, 10, 0)), date_to |-> Some(At(1, 12, 0)),
       preferred_window |-> None],
      [NoQuery EXCEPT !.preferred_window = Some("night")] }

ResetMessages ==
    { [BaseMessage EXCEPT !.reset = TRUE],
      [BaseMessage EXCEPT !.reset = TRUE, !.intent = "event_update", !.keywords = "yoha",
                          !.plan = MovePlan] }
MenuMessages ==
    { [BaseMessage EXCEPT !.button = b] :
      b \in {"today", "tomorrow", "find_time", "plan_event", "search"} }
CreateMessages ==
    { [BaseMessage EXCEPT !.intent = "create_event", !.event = Some(p)] :
      p \in {ClashingProposal, FreeProposal} }
SlotCreateMessages ==
    { [BaseMessage EXCEPT !.intent = "create_event", !.event = Some(p),
                          !.refers_to_last_slot = r] :
      p \in {UndatedProposal, NoEvent}, r \in BOOLEAN }
UpdateMessages ==
    { [BaseMessage EXCEPT !.intent = "event_update", !.keywords = k, !.plan = u] :
      k \in {"yoha", ""}, u \in Plans }
    \cup { [BaseMessage EXCEPT !.intent = "event_update", !.plan = MovePlan,
                               !.refers_to_last_event = TRUE] }
ManyUpdateMessages ==
    { [BaseMessage EXCEPT !.intent = "event_update", !.keywords = "zvitu", !.plan = u] :
      u \in {MovePlan, TitlePlan} }
DeleteMessages ==
    { [BaseMessage EXCEPT !.intent = "event_delete", !.keywords = k] :
      k \in {"yoha", "zvitu", ""} }
LookupMessages ==
    { [BaseMessage EXCEPT !.intent = "event_lookup", !.keywords = k, !.text = k,
                          !.general = TRUE] : k \in {"yoha", "zvitu"} }
AgendaMessages ==
    { [BaseMessage EXCEPT !.intent = "agenda_day", !.day = Some(d), !.general = TRUE] :
      d \in {Today, Today + 1} }
SlotMessages == { [BaseMessage EXCEPT !.intent = "find_free_slot", !.query = q] : q \in SlotQueries }
NavMessages == { [BaseMessage EXCEPT !.nav = d] : d \in {"earlier", "later"} }

\* the state a turn leaves behind; the history variable turn also keeps the
\* LastFreeSlotsContext the turn found
Turn(op, arg, out, fails) ==
    /\ out.nid <= FirstNewId + MaxCreated
    /\ turns_left' = turns_left - 1
    /\ user_data' = out.ud
    /\ calendar' = out.cal
    /\ next_id' = out.nid
    /\ turn' = [op |-> op, arg |-> arg, reply |-> IF out.raised THEN "error" ELSE out.reply,
                calls |-> out.calls, applied |-> out.applied,
                failed |-> \E i \in DOMAIN out.calls : out.calls[i] \in fails,
                found |-> Get(user_data, K_LAST_FREE_SLOTS)]
    /\ UNCHANGED <<fsVars, series_db, tasks>>

\* a text message; failing is the set of sets of backend calls that may fail during the turn
Text(op, messages, failing) ==
    \E msg \in messages, fails \in failing :
        Turn(op, msg, Fallback(user_data, calendar, next_id, msg, fails), fails)

SayReset ==
    /\ turns_left > 0
    /\ Text("reset", ResetMessages, {{}})
TapMenu ==
    /\ turns_left > 0
    /\ Text("menu", MenuMessages, {{}, {"list"}})
AskCreate ==
    /\ turns_left > 0
    /\ Text("create", CreateMessages, {{}, {"list"}, {"create"}})
AskCreateInSlot ==
    /\ turns_left > 0
    /\ Text("create", SlotCreateMessages, {{}, {"create"}})
AskUpdate ==
    /\ turns_left > 0
    /\ Text("update", UpdateMessages, {{}, {"update"}})
AskUpdateAmongMany ==
    /\ turns_left > 0
    /\ Text("update", ManyUpdateMessages, {{}, {"search"}})
AskDelete ==
    /\ turns_left > 0
    /\ Text("delete", DeleteMessages, {{}})
AskLookup ==
    /\ turns_left > 0
    /\ Text("lookup", LookupMessages, {{}, {"search"}})
AskAgenda ==
    /\ turns_left > 0
    /\ Text("agenda", AgendaMessages, {{}})
AskSlots ==
    /\ turns_left > 0
    /\ Text("find_slots", SlotMessages, {{}, {"list"}})
AskMoreSlots ==
    /\ turns_left > 0
    /\ Text("more_slots", NavMessages, {{}, {"list"}})

\* the indexes a callback payload may carry: those of the buttons shown, the one
\* past them, and a negative one that no keyboard of the bot carries
ListIndexes == -1..2

PressConfirmDelete ==
    /\ turns_left > 0
    /\ \E fails \in {{}, {"delete"}} :
           Turn("confirm_delete", 0, ConfirmDelete(user_data, calendar, next_id, fails), fails)
PressDeleteIndex ==
    /\ turns_left > 0
    /\ \E idx \in ListIndexes :
           Turn("delete_i", idx, DeleteIndex(user_data, calendar, next_id, idx), {})
PressCancelDelete ==
    /\ turns_left > 0
    /\ Turn("cancel_delete", 0, CancelDelete(user_data, calendar, next_id), {})
PressUpdateIndex ==
    /\ turns_left > 0
    /\ \E idx \in ListIndexes, fails \in {{}, {"get"}, {"update"}} :
           Turn("update_i", idx, UpdateIndex(user_data, calendar, next_id, idx, Today, fails),
                fails)
PressCancelUpdate ==
    /\ turns_left > 0
    /\ Turn("cancel_update", 0, CancelUpdate(user_data, calendar, next_id), {})
PressConflictConfirm ==
    /\ turns_left > 0
    /\ \E fails \in {{}, {"create", "update"}} :
           Turn("conflict_confirm", 0, ConflictConfirm(user_data, calendar, next_id, Today, fails),
                fails)
PressConflictCancel ==
    /\ turns_left > 0
    /\ Turn("conflict_cancel", 0, ConflictCancel(user_data, calendar, next_id), {})

\* Spec: creating and updating with conflicts, confirming, cancelling,
\* resetting, and the intents in between
Init == InitBot(MaxTurns)

Next ==
    \/ SayReset
    \/ TapMenu
    \/ AskCreate
    \/ AskUpdate
    \/ AskDelete
    \/ AskLookup
    \/ AskAgenda
    \/ AskSlots
    \/ PressConflictConfirm
    \/ PressConflictCancel

Spec == Init /\ [][Next]_vars

\* SpecLists: choosing among several matching events
InitLists == InitBot(MaxListTurns)

NextLists ==
    \/ AskDelete
    \/ AskUpdateAmongMany
    \/ PressDeleteIndex
    \/ PressConfirmDelete
    \/ PressCancelDelete
    \/ PressUpdateIndex
    \/ PressCancelUpdate

SpecLists == InitLists /\ [][NextLists]_vars

\* SpecNav: finding free slots, navigating and using them
InitNav == InitBot(MaxNavTurns)

NextNav ==
    \/ AskSlots
    \/ AskMoreSlots
    \/ AskCreateInSlot
    \/ TapMenu
    \/ SayReset

SpecNav == InitNav /\ [][NextNav]_vars

----------------------------------------------------------------------------
(* SeriesPlanner (app/services/series_planner.py)                           *)

MinSuggestions == 6               \* max(blocks_needed * 3, 6)
SuggestionsPerBlock == 3
FirstWeekendDay == 5              \* slot.start.weekday() >= 5
DaysPerWeek == 7
MarkerMinutes == 30               \* reminder_end = reminder_start + 30 minutes
MarkerReminderMinutes == 30       \* RemindersConfig.from_minutes(30)

\* a count of blocks that rounds the quotient down
BlocksNeededFloor(total_minutes, block_minutes) == Max(1, total_minutes \div block_minutes)

\* max(1, math.ceil(total_minutes / block_minutes)); -((-a) \div b) is the
\* ceiling of a / b for b > 0
BlocksNeeded(total_minutes, block_minutes) == Max(1, -((-total_minutes) \div block_minutes))

\* a deadline test that lets a deadline equal to the current time through
DeadlineBehind(deadline, now) == deadline < now

\* the precondition test of plan_series: deadline <= now
DeadlinePassed(deadline, now) == deadline <= now

\* datetime.weekday() (Monday is 0), given the weekday of day 0
Weekday(t, weekday0) == (DayOf(t) + weekday0) % DaysPerWeek

\* a filter that keeps weekend slots whatever allow_weekends says
FilterSlotsAnyDay(slots, allow_weekends, deadline, limit, weekday0) ==
    Take(SelectSeq(slots, LAMBDA slot : ~(slot.end > deadline)), limit)

\* SeriesPlannerService._filter_slots
FilterSlots(slots, allow_weekends, deadline, limit, weekday0) ==
    Take(SelectSeq(slots, LAMBDA slot :
             /\ ~(slot.end > deadline)
             /\ ~(~allow_weekends /\ Weekday(slot.start, weekday0) >= FirstWeekendDay)),
         limit)

\* the FreeSlotRequest plan_series builds: from now to the deadline
SeriesSlotRequest(request, now) ==
    [duration_minutes |-> request.block_minutes,
     date_from |-> now,
     date_to |-> request.deadline,
     preferred_start |-> request.preferred_start_hour,
     preferred_end |-> request.preferred_end_hour]

SeriesPlanBlock(index, slot) == [index |-> index, start |-> slot.start, end |-> slot.end]

\* the SeriesPlanPreview plan_series builds from the filtered slots
SeriesPlanPreview(request, blocks_needed, filtered_slots) ==
    [request |-> request,
     blocks |-> [i \in 1..Min(blocks_needed, Len(filtered_slots)) |->
                    SeriesPlanBlock(i - 1, filtered_slots[i])],
     missing_blocks |-> Max(0, blocks_needed - Len(filtered_slots)),
     warnings |-> IF Max(0, blocks_needed - Len(filtered_slots)) > 0
                  THEN <<"found_fewer">> ELSE <<>>]

\* plan_series once find_slots has answered
PlanFromSlots(request, blocks_needed, found, weekday0) ==
    IF found.error
    THEN [kind |-> "value_error", calls |-> <<"list">>, preview |-> None]
    ELSE [kind |-> "preview", calls |-> <<"list">>,
          preview |-> Some(SeriesPlanPreview(request, blocks_needed,
                               FilterSlots(found.slots, request.allow_weekends,
                                           request.deadline, blocks_needed, weekday0)))]

\* a plan_series that asks find_slots for no more candidates than blocks
PlanSeriesFewCandidates(cal, request, clock, fails) ==
    IF DeadlinePassed(request.deadline, clock.now)
    THEN [kind |-> "value_error", calls |-> <<>>, preview |-> None]
    ELSE IF "list" \in fails
    THEN [kind |-> "error", calls |-> <<"list">>, preview |-> None]
    ELSE PlanFromSlots(request,
                       BlocksNeeded(request.total_minutes, request.block_minutes),
                       FindSlots(cal, SeriesSlotRequest(request, clock.now),
                                 BlocksNeeded(request.total_minutes, request.block_minutes)),
                       clock.weekday0)

\* SeriesPlannerService.plan_series: "value_error" is a raised ValueError,
\* "error" any other exception
PlanSeries(cal, request, clock, fails) ==
    IF DeadlinePassed(request.deadline, clock.now)
    THEN [kind |-> "value_error", calls |-> <<>>, preview |-> None]
    ELSE IF "list" \in fails
    THEN [kind |-> "error", calls |-> <<"list">>, preview |-> None]
    ELSE PlanFromSlots(request,
                       BlocksNeeded(request.total_minutes, request.block_minutes),
                       FindSlots(cal, SeriesSlotRequest(request, clock.now),
                                 Max(BlocksNeeded(request.total_minutes, request.block_minutes)
                                         * SuggestionsPerBlock, MinSuggestions)),
                       clock.weekday0)

\* the event commit_plan inserts for one block
BlockDraft(request, block) ==
    [summary |-> "series_block",
     start |-> TimedPayload(block.start),
     end |-> TimedPayload(block.end),
     description |-> Some("series"),
     location |-> None, recurrence |-> None, conference_data |-> None,
     color_id |-> None, reminders |-> None]

\* the deadline-marker event of _ensure_deadline_reminder
MarkerDraft(request) ==
    [summary |-> "series_deadline",
     start |-> TimedPayload(request.deadline),
     end |-> TimedPayload(request.deadline + MarkerMinutes),
     description |-> Some("series"),
     location |-> None, recurrence |-> None, conference_data |-> None,
     color_id |-> None,
     reminders |-> RemindersFromMinutes(Some(MarkerReminderMinutes))]

\* the state commit_plan carries through its loop
CommitStart(cal, nid) ==
    [cal |-> cal, nid |-> nid, calls |-> <<>>, created_blocks |-> <<>>, event_links |-> <<>>,
     rows |-> <<>>, failed |-> FALSE]

\* one pass of the loop of commit_plan: create_event, then add_block
CommitBlock(st, request, block, fails) ==
    IF fails.block = block.index + 1
    THEN [st EXCEPT !.calls = Append(@, "create_block"), !.failed = TRUE]
    ELSE [st EXCEPT !.cal = CreateEvent(@, st.nid, BlockDraft(request, block)),
                    !.nid = @ + 1,
                    !.calls = Append(@, "create_block"),
                    !.event_links = Append(@, st.nid),
                    !.rows = Append(@, [order_index |-> block.index,
                                        scheduled_start |-> block.start,
                                        scheduled_end |-> block.end,
                                        calendar_event_id |-> st.nid]),
                    !.created_blocks = Append(@, block)]

\* the loop of commit_plan over preview.blocks from position i on; an
\* exception leaves the loop
RECURSIVE CommitBlocks(_, _, _, _, _)
CommitBlocks(st, request, blocks, i, fails) ==
    IF i > Len(blocks) \/ st.failed THEN st
    ELSE CommitBlocks(CommitBlock(st, request, blocks[i], fails), request, blocks, i + 1, fails)

\* an ending that counts a missing deadline link as a failure of the commit
CommitFailsWithoutMarker(st) ==
    [raised |-> st.failed \/ st.deadline_event_link = None, cal |-> st.cal, nid |-> st.nid,
     calls |-> st.calls, result |-> None, rows |-> <<>>]

\* a marker step that is taken even after a block failed
EnsureDeadlineReminderAlways(st, request, fails) ==
    IF fails.marker
    THEN [st EXCEPT !.calls = Append(@, "create_marker")] @@ [deadline_event_link |-> None]
    ELSE [st EXCEPT !.cal = CreateEvent(@, st.nid, MarkerDraft(request)),
                    !.nid = @ + 1,
                    !.calls = Append(@, "create_marker")]
         @@ [deadline_event_link |-> Some(st.nid)]

\* _ensure_deadline_reminder, which commit_plan reaches only when the loop
\* ended without an exception: a failed create is logged and gives no link
EnsureDeadlineReminder(st, request, fails) ==
    IF st.failed THEN st @@ [deadline_event_link |-> None]
    ELSE IF fails.marker
    THEN [st EXCEPT !.calls = Append(@, "create_marker")] @@ [deadline_event_link |-> None]
    ELSE [st EXCEPT !.cal = CreateEvent(@, st.nid, MarkerDraft(request)),
                    !.nid = @ + 1,
                    !.calls = Append(@, "create_marker")]
         @@ [deadline_event_link |-> Some(st.nid)]

\* how commit_plan ends, given the state its steps left
CommitOutcome(st) ==
    [raised |-> st.failed, cal |-> st.cal, nid |-> st.nid, calls |-> st.calls,
     result |-> IF st.failed THEN None
                ELSE Some([created_blocks |-> st.created_blocks,
                           event_links |-> st.event_links,
                           deadline_event_link |-> st.deadline_event_link]),
     rows |-> IF st.failed THEN <<>> ELSE st.rows]

\* SeriesPlannerService.commit_plan: "raised" when it ends in an exception
\* (the database session is rolled back, the backend is not); otherwise the
\* SeriesCommitResult and the rows the session commits
CommitPlan(cal, nid, preview, user_known, fails) ==
    IF preview.blocks = <<>> \/ ~user_known
    THEN [raised |-> TRUE, cal |-> cal, nid |-> nid, calls |-> <<>>, result |-> None,
          rows |-> <<>>]
    ELSE CommitOutcome(EnsureDeadlineReminder(
                           CommitBlocks(CommitStart(cal, nid), preview.request, preview.blocks,
                                        1, fails),
                           preview.request, fails))

----------------------------------------------------------------------------
(* The series dialogue (app/bot/series.py): the specification SpecSeries    *)

K_SERIES_GOAL == "series_goal"
K_SERIES_DEADLINE == "series_deadline"
K_SERIES_TOTAL_MINUTES == "series_total_minutes"
K_SERIES_BLOCK_MINUTES == "series_block_minutes"
K_SERIES_START_HOUR == "series_start_hour"
K_SERIES_END_HOUR == "series_end_hour"
K_SERIES_ALLOW_WEEKENDS == "series_allow_weekends"

\* the keys _clear_series_context pops: "series_..." and "pending_series..."
SeriesKeys ==
    {K_SERIES_GOAL, K_SERIES_DEADLINE, K_SERIES_TOTAL_MINUTES, K_SERIES_BLOCK_MINUTES,
     K_SERIES_START_HOUR, K_SERIES_END_HOUR, K_SERIES_ALLOW_WEEKENDS, K_PENDING_SERIES_PLAN}

ClearSeriesContext(ud) == PopAll(ud, SeriesKeys)

SERIES_TIME_RANGES ==
    [morning |-> <<8, 12>>, day |-> <<12, 17>>, evening |-> <<17, 22>>, any |-> <<8, 22>>]

DefaultSeriesTotalMinutes == 240
DefaultSeriesBlockMinutes == 90

\* _build_request_from_context (the dialogue has stored the deadline)
BuildRequestFromContext(ud) ==
    [title |-> IF Has(ud, K_SERIES_GOAL) THEN ud[K_SERIES_GOAL] ELSE "series",
     deadline |-> ud[K_SERIES_DEADLINE],
     total_minutes |-> IF Has(ud, K_SERIES_TOTAL_MINUTES) THEN ud[K_SERIES_TOTAL_MINUTES]
                       ELSE DefaultSeriesTotalMinutes,
     block_minutes |-> IF Has(ud, K_SERIES_BLOCK_MINUTES) THEN ud[K_SERIES_BLOCK_MINUTES]
                       ELSE DefaultSeriesBlockMinutes,
     preferred_start_hour |-> Get(ud, K_SERIES_START_HOUR),
     preferred_end_hour |-> Get(ud, K_SERIES_END_HOUR),
     allow_weekends |-> IF Has(ud, K_SERIES_ALLOW_WEEKENDS) THEN ud[K_SERIES_ALLOW_WEEKENDS]
                        ELSE TRUE]

\* the payload _show_series_preview stores: request, blocks and warnings
SeriesPayload(preview) ==
    [request |-> preview.request, blocks |-> preview.blocks, warnings |-> preview.warnings]

\* _payload_to_preview: missing_blocks is not in the payload and reads as 0
PayloadToPreview(payload) ==
    [request |-> payload.request, blocks |-> payload.blocks, missing_blocks |-> 0,
     warnings |-> payload.warnings]

\* _show_series_preview once plan_series has answered
ShowPlanned(ud, planned) ==
    IF planned.kind = "value_error"
    THEN [ud |-> ud, reply |-> "value_error", calls |-> planned.calls, preview |-> None]
    ELSE IF planned.kind = "error"
    THEN [ud |-> ud, reply |-> "plan_failed", calls |-> planned.calls, preview |-> None]
    ELSE IF Val(planned.preview).blocks = <<>>
    THEN [ud |-> ud, reply |-> "no_windows", calls |-> planned.calls,
          preview |-> planned.preview]
    ELSE [ud |-> Put(ud, K_PENDING_SERIES_PLAN, SeriesPayload(Val(planned.preview))),
          reply |-> "preview", calls |-> planned.calls, preview |-> planned.preview]

\* _show_series_preview; without a stored deadline _build_request_from_context
\* raises and nothing is shown
ShowSeriesPreview(ud, cal, clock, fails) ==
    IF ~Has(ud, K_SERIES_DEADLINE)
    THEN [ud |-> ud, reply |-> "error", calls |-> <<>>, preview |-> None]
    ELSE ShowPlanned(ud, PlanSeries(cal, BuildRequestFromContext(ud), clock, fails))

\* a series_confirm branch that drops the pending plan also when the commit failed
ConfirmCommittedThenClear(ud, db, preview, done) ==
    IF done.raised
    THEN [ud |-> ClearSeriesContext(ud), cal |-> done.cal, nid |-> done.nid, db |-> db,
          reply |-> "commit_failed", calls |-> done.calls, result |-> None]
    ELSE [ud |-> ClearSeriesContext(ud), cal |-> done.cal, nid |-> done.nid,
          db |-> Append(db, [title |-> preview.request.title,
                             deadline |-> preview.request.deadline, blocks |-> done.rows]),
          reply |-> "committed", calls |-> done.calls, result |-> done.result]

\* the series_confirm branch once commit_plan has ended
ConfirmCommitted(ud, db, preview, done) ==
    IF done.raised
    THEN [ud |-> ud, cal |-> done.cal, nid |-> done.nid, db |-> db, reply |-> "commit_failed",
          calls |-> done.calls, result |-> None]
    ELSE [ud |-> ClearSeriesContext(ud), cal |-> done.cal, nid |-> done.nid,
          db |-> Append(db, [title |-> preview.request.title,
                             deadline |-> preview.request.deadline, blocks |-> done.rows]),
          reply |-> "committed", calls |-> done.calls, result |-> done.result]

\* the series_confirm branch of handle_series_button_callback
SeriesConfirm(ud, cal, nid, db, user_known, fails) ==
    IF ~Has(ud, K_PENDING_SERIES_PLAN)
    THEN [ud |-> ud, cal |-> cal, nid |-> nid, db |-> db, reply |-> "no_plan", calls |-> <<>>,
          result |-> None]
    ELSE ConfirmCommitted(ud, db, PayloadToPreview(ud[K_PENDING_SERIES_PLAN]),
                          CommitPlan(cal, nid, PayloadToPreview(ud[K_PENDING_SERIES_PLAN]),
                                     user_known, fails))

SeriesDays == 3           \* the latest deadline is on this day
MaxSeriesTurns == 3
MaxSeriesBlocks == 3      \* the block whose creation fails is one of 1..MaxSeriesBlocks

\* the current time and the weekday of day 0 (3 is Thursday, 4 is Friday)
SeriesClocks == { [now |-> At(0, 9, 0), weekday0 |-> w] : w \in {3, 4} }

\* deadlines before, at and after the current time
SeriesDeadlines == {At(0, 8, 0), At(0, 9, 0), At(1, 12, 0), At(SeriesDays, 12, 0)}

SeriesTotals == {30, 130, 180}
SeriesBlockLengths == {60, 90}

SeriesCalendars ==
    { {},
      {TimedEvent(1, "yoha", At(0, 9, 0), At(0, 12, 30))},
      {TimedEvent(1, "yoha", At(0, 9, 0), At(0, 12, 30)),
       TimedEvent(2, "zvit", At(1, 8, 0), At(1, 8, 30))} }

\* which create_event calls of a commit fail: the block with this number
\* (0: none) and the deadline marker
SeriesFailures == [block : 0..MaxSeriesBlocks, marker : BOOLEAN]

\* the dialogue has collected goal, deadline, total time and block length
InitSeries ==
    /\ calendar \in SeriesCalendars
    /\ next_id = FirstNewId
    /\ \E deadline \in SeriesDeadlines, total \in SeriesTotals, block \in SeriesBlockLengths :
           user_data = Put(Put(Put(Put(EmptyDict, K_SERIES_GOAL, "thesis"),
                                   K_SERIES_DEADLINE, deadline),
                               K_SERIES_TOTAL_MINUTES, total),
                           K_SERIES_BLOCK_MINUTES, block)
    /\ \E clock \in SeriesClocks :
           turn = [IdleTurn EXCEPT !.arg = [clock |-> clock]]
    /\ turns_left = MaxSeriesTurns
    /\ fs_request = IdleRequest
    /\ fs_busy = <<>>
    /\ fs_max = DefaultMaxSuggestions
    /\ fs_slots = <<>>
    /\ fs_pc = "idle"
    /\ fs_loop = <<>>
    /\ series_db = <<>>
    /\ tasks = <<>>

\* a series_time_<key> button
PressSeriesTime ==
    /\ turns_left > 0
    /\ \E key \in DOMAIN SERIES_TIME_RANGES :
           /\ user_data' = Pop(Put(Put(user_data, K_SERIES_START_HOUR,
                                       SERIES_TIME_RANGES[key][1]),
                                   K_SERIES_END_HOUR, SERIES_TIME_RANGES[key][2]),
                               K_SERIES_ALLOW_WEEKENDS)
           /\ turn' = [op |-> "series_time", arg |-> [clock |-> turn.arg.clock],
                       reply |-> "ask_weekends", calls |-> <<>>, applied |-> None]
    /\ turns_left' = turns_left - 1
    /\ UNCHANGED <<calendar, next_id, fsVars, series_db, tasks>>

\* a series_weekend_yes or series_weekend_no button: store the answer, show the preview
PressSeriesWeekend ==
    /\ turns_left > 0
    /\ \E yes \in BOOLEAN, fails \in SUBSET {"list"} :
           /\ user_data' = ShowSeriesPreview(Put(user_data, K_SERIES_ALLOW_WEEKENDS, yes),
                                             calendar, turn.arg.clock, fails).ud
           /\ turn' = [op |-> "series_preview",
                       arg |-> [clock |-> turn.arg.clock, allow_weekends |-> yes],
                       reply |-> ShowSeriesPreview(Put(user_data, K_SERIES_ALLOW_WEEKENDS, yes),
                                                   calendar, turn.arg.clock, fails).reply,
                       calls |-> ShowSeriesPreview(Put(user_data, K_SERIES_ALLOW_WEEKENDS, yes),
                                                   calendar, turn.arg.clock, fails).calls,
                       applied |-> ShowSeriesPreview(Put(user_data, K_SERIES_ALLOW_WEEKENDS, yes),
                                                     calendar, turn.arg.clock, fails).preview]
    /\ turns_left' = turns_left - 1
    /\ UNCHANGED <<calendar, next_id, fsVars, series_db, tasks>>

\* the series_confirm button
PressSeriesConfirm ==
    /\ turns_left > 0
    /\ \E user_known \in BOOLEAN, fails \in SeriesFailures :
           /\ user_data' = SeriesConfirm(user_data, calendar, next_id, series_db,
                                         user_known, fails).ud
           /\ calendar' = SeriesConfirm(user_data, calendar, next_id, series_db,
                                        user_known, fails).cal
           /\ next_id' = SeriesConfirm(user_data, calendar, next_id, series_db,
                                       user_known, fails).nid
           /\ series_db' = SeriesConfirm(user_data, calendar, next_id, series_db,
                                         user_known, fails).db
           /\ turn' = [op |-> "series_confirm",
                       arg |-> [clock |-> turn.arg.clock, user_known |-> user_known,
                                fails |-> fails],
                       reply |-> SeriesConfirm(user_data, calendar, next_id, series_db,
                                               user_known, fails).reply,
                       calls |-> SeriesConfirm(user_data, calendar, next_id, series_db,
                                               user_known, fails).calls,
                       applied |-> SeriesConfirm(user_data, calendar, next_id, series_db,
                                                 user_known, fails).result]
    /\ turns_left' = turns_left - 1
    /\ UNCHANGED <<fsVars, tasks>>

\* the series_cancel button
PressSeriesCancel ==
    /\ turns_left > 0
    /\ user_data' = ClearSeriesContext(user_data)
    /\ turn' = [op |-> "series_cancel", arg |-> [clock |-> turn.arg.clock],
                reply |-> "cancelled", calls |-> <<>>, applied |-> None]
    /\ turns_left' = turns_left - 1
    /\ UNCHANGED <<calendar, next_id, fsVars, series_db, tasks>>

NextSeries ==
    \/ PressSeriesTime
    \/ PressSeriesWeekend
    \/ PressSeriesConfirm
    \/ PressSeriesCancel

SpecSeries == InitSeries /\ [][NextSeries]_vars

\* the events of cal that commit_plan inserted for this block
BlockEvents(cal, block) ==
    {e \in cal : /\ e.summary = "series_block"
                 /\ e.start = TimedPayload(block.start)
                 /\ e.end = TimedPayload(block.end)}

\* the blocks of the plan a series_confirm press finds in user_data
PendingBlocks(ud) == ud[K_PENDING_SERIES_PLAN].blocks

\* C11: when the creation of block k fails during a commit, the commit is
\* reported as failed, exactly the events of blocks 1..k-1 are added to the
\* backend and stay there, and no create is issued for a later block or for
\* the deadline marker
C11_FailedBlockStopsCommit ==
    [][ ( /\ turn'.op = "series_confirm"
          /\ Has(user_data, K_PENDING_SERIES_PLAN)
          /\ turn'.arg.user_known
          /\ turn'.arg.fails.block \in 1..Len(PendingBlocks(user_data)) ) =>
            LET k == turn'.arg.fails.block
                blocks == PendingBlocks(user_data)
            IN /\ turn'.reply = "commit_failed"
               /\ turn'.applied = None
               /\ turn'.calls = [i \in 1..k |-> "create_block"]
               /\ next_id' = next_id + (k - 1)
               /\ calendar \subseteq calendar'
               /\ Cardinality(calendar' \ calendar) = k - 1
               /\ \A i \in 1..(k - 1) :
                      BlockEvents(calendar' \ calendar, blocks[i]) /= {}
               /\ \A e \in calendar' \ calendar : e.summary /= "series_deadline" ]_vars

\* a commit of a three-block plan whose second create failed: one block
\* event is in the backend and the answer is a failure
C11_Witness ==
    /\ turn.op = "series_confirm"
    /\ turn.reply = "commit_failed"
    /\ turn.arg.fails.block = 2
    /\ Has(user_data, K_PENDING_SERIES_PLAN)
    /\ Len(PendingBlocks(user_data)) = 3
    /\ turn.calls = <<"create_block", "create_block">>
    /\ BlockEvents(calendar, PendingBlocks(user_data)[1]) /= {}
    /\ Cardinality({e \in calendar : e.summary = "series_block"}) = 1

\* C12: the deadline marker is created only as the last call of a commit,
\* after a create of every block has succeeded; when only the marker's
\* create fails the commit still succeeds and its result lists every block
\* and one link per block, with no deadline link
C12_MarkerLastAndNotFatal ==
    [][ (turn'.op = "series_confirm" /\ Has(user_data, K_PENDING_SERIES_PLAN)) =>
            LET blocks == PendingBlocks(user_data)
                n == Len(PendingBlocks(user_data))
            IN /\ "create_marker" \in Range(turn'.calls) =>
                      /\ turn'.calls = [i \in 1..(n + 1) |->
                                            IF i <= n THEN "create_block" ELSE "create_marker"]
                      /\ \A i \in 1..n : BlockEvents(calendar' \ calendar, blocks[i]) /= {}
               /\ ( /\ turn'.arg.user_known
                     /\ turn'.arg.fails.marker
                     /\ turn'.arg.fails.block \notin 1..n ) =>
                      /\ turn'.reply = "committed"
                      /\ IsSome(turn'.applied)
                      /\ Val(turn'.applied).created_blocks = blocks
                      /\ Len(Val(turn'.applied).event_links) = n
                      /\ \A i \in 1..n :
                             \E e \in BlockEvents(calendar' \ calendar, blocks[i]) :
                                 e.id = Val(turn'.applied).event_links[i]
                      /\ Val(turn'.applied).deadline_event_link = None
                      /\ \A e \in calendar' : e.summary /= "series_deadline" ]_vars

\* a commit of two blocks whose marker create failed: committed, two links,
\* no deadline link
C12_Witness ==
    /\ turn.op = "series_confirm"
    /\ turn.reply = "committed"
    /\ turn.arg.fails.marker
    /\ turn.calls = <<"create_block", "create_block", "create_marker">>
    /\ Len(Val(turn.applied).event_links) = 2
    /\ Val(turn.applied).deadline_event_link = None
    /\ Len(series_db) = 1

\* C13: every block of a preview ends at or before the deadline, overlaps no
\* other block of the preview and no busy interval fetched for the plan,
\* and starts on a weekday when allow_weekends is false
C13_PreviewBlocksFit ==
    (turn.op = "series_preview" /\ IsSome(turn.applied)) =>
        LET preview == Val(turn.applied)
            busy == FetchBusyIntervals(calendar, turn.arg.clock.now, preview.request.deadline)
        IN \A i \in DOMAIN preview.blocks :
               /\ preview.blocks[i].end <= preview.request.deadline
               /\ preview.blocks[i].start < preview.blocks[i].end
               /\ \A j \in DOMAIN preview.blocks :
                      i /= j => ~Overlaps(preview.blocks[i].start, preview.blocks[i].end,
                                          preview.blocks[j].start, preview.blocks[j].end)
               /\ \A j \in DOMAIN busy :
                      ~Overlaps(preview.blocks[i].start, preview.blocks[i].end,
                                busy[j][1], busy[j][2])
               /\ ~preview.request.allow_weekends =>
                      Weekday(preview.blocks[i].start, turn.arg.clock.weekday0) < FirstWeekendDay

\* a weekdays-only preview made on a Friday with the morning taken: the first
\* block is after the busy event, the second on Monday
C13_Witness ==
    /\ turn.op = "series_preview"
    /\ turn.reply = "preview"
    /\ turn.arg.clock.weekday0 = 4
    /\ ~Val(turn.applied).request.allow_weekends
    /\ Len(Val(turn.applied).blocks) = 2
    /\ calendar /= {}
    /\ DayOf(Val(turn.applied).blocks[1].start) = 0
    /\ DayOf(Val(turn.applied).blocks[2].start) = 3

\* the candidates plan_series asks for: max(3 * blocks_needed, 6) slots of
\* block_minutes between now and the deadline
SeriesCandidates(cal, request, now, blocks_needed) ==
    FindSlots(cal,
              [duration_minutes |-> request.block_minutes, date_from |-> now,
               date_to |-> request.deadline,
               preferred_start |-> request.preferred_start_hour,
               preferred_end |-> request.preferred_end_hour],
              IF 3 * blocks_needed > 6 THEN 3 * blocks_needed ELSE 6).slots

\* the candidates that end by the deadline and, weekends disallowed, start on
\* a weekday, in the order find_slots gave them
SeriesSurvivors(candidates, request, weekday0) ==
    SelectSeq(candidates, LAMBDA slot :
        /\ slot.end <= request.deadline
        /\ (request.allow_weekends \/ Weekday(slot.start, weekday0) < 5))

\* C31: plan_series asks for max(3 * blocks_needed, 6) candidates, keeps in
\* order those that end at or before the deadline (and start on a weekday
\* when weekends are disallowed) and returns the first min(blocks_needed,
\* survivors) of them as blocks indexed 0..n-1; missing_blocks is blocks_needed
\* minus the number of blocks, and the shortfall warning is there exactly when
\* missing_blocks > 0, with the partial preview returned
C31_PlanIsFilteredPrefix ==
    (turn.op = "series_preview" /\ IsSome(turn.applied)) =>
        LET preview == Val(turn.applied)
            request == preview.request
            blocks_needed == BlocksNeeded(request.total_minutes, request.block_minutes)
            survivors == SeriesSurvivors(SeriesCandidates(calendar, request,
                                                          turn.arg.clock.now, blocks_needed),
                                         request, turn.arg.clock.weekday0)
            n == IF blocks_needed < Len(survivors) THEN blocks_needed ELSE Len(survivors)
        IN /\ Len(preview.blocks) = n
           /\ \A i \in 1..n : preview.blocks[i] = [index |-> i - 1,
                                                    start |-> survivors[i].start,
                                                    end |-> survivors[i].end]
           /\ preview.missing_blocks = blocks_needed - n
           /\ (preview.warnings /= <<>>) = (preview.missing_blocks > 0)

\* a weekdays-only plan of three blocks made on a Friday: the survivors are
\* Friday's and Monday's slot, two blocks are returned with a warning
C31_Witness ==
    /\ turn.op = "series_preview"
    /\ IsSome(turn.applied)
    /\ turn.arg.clock.weekday0 = 4
    /\ ~Val(turn.applied).request.allow_weekends
    /\ Len(Val(turn.applied).blocks) = 2
    /\ Val(turn.applied).blocks[2].index = 1
    /\ DayOf(Val(turn.applied).blocks[2].start) = 3
    /\ Val(turn.applied).missing_blocks = 1
    /\ Val(turn.applied).warnings /= <<>>

\* the least n with n * block_minutes >= total_minutes
CeilingOfQuotient(total_minutes, block_minutes) ==
    CHOOSE n \in 1..total_minutes :
        n * block_minutes >= total_minutes /\ (n - 1) * block_minutes < total_minutes

\* C14: plan_series plans for ceil(total_minutes / block_minutes) blocks:
\* the blocks of a preview and its missing blocks add up to that number
C14_BlocksNeededIsCeiling ==
    (turn.op = "series_preview" /\ IsSome(turn.applied)) =>
        LET preview == Val(turn.applied)
        IN /\ BlocksNeeded(preview.request.total_minutes, preview.request.block_minutes)
                  = CeilingOfQuotient(preview.request.total_minutes,
                                      preview.request.block_minutes)
           /\ Len(preview.blocks) + preview.missing_blocks
                  = CeilingOfQuotient(preview.request.total_minutes,
                                      preview.request.block_minutes)

\* a preview for 130 minutes in blocks of 60 shows three blocks
C14_Witness ==
    /\ turn.op = "series_preview"
    /\ IsSome(turn.applied)
    /\ Val(turn.applied).request.total_minutes = 130
    /\ Val(turn.applied).request.block_minutes = 60
    /\ Len(Val(turn.applied).blocks) = 3
    /\ Val(turn.applied).missing_blocks = 0

\* C15: a preview asked for a deadline that is not after the current time
\* is refused with the ValueError's message: no backend call is made, no
\* preview or warning is produced and no plan is stored
C15_PastDeadlineRejected ==
    [][ ( /\ turn'.op = "series_preview"
          /\ Has(user_data, K_SERIES_DEADLINE)
          /\ user_data[K_SERIES_DEADLINE] <= turn'.arg.clock.now ) =>
            /\ turn'.reply = "value_error"
            /\ turn'.calls = <<>>
            /\ turn'.applied = None
            /\ ~Has(user_data', K_PENDING_SERIES_PLAN)
            /\ calendar' = calendar ]_vars

\* a preview was asked for a deadline equal to the current time and refused
C15_Witness ==
    /\ turn.op = "series_preview"
    /\ turn.reply = "value_error"
    /\ turn.calls = <<>>
    /\ Has(user_data, K_SERIES_DEADLINE)
    /\ user_data[K_SERIES_DEADLINE] = turn.arg.clock.now

\* the series_confirm press of turn t got as far as creating block number k
\* (counted from 1) and created it
CreatedByPress(t, k) ==
    /\ t.arg.user_known
    /\ t.arg.fails.block = 0 \/ t.arg.fails.block > k

\* C33: a commit that failed part-way leaves the pending series plan as it
\* was, and the series_confirm pressed again issues the creation of every
\* block from the first one, so that a block created before the failure is
\* created a second time; after a commit that succeeded the pending plan is
\* gone and a further series_confirm creates no event
C33_RetryCreatesAgain ==
    [][ /\ (turn'.op = "series_confirm" /\ turn'.reply = "commit_failed") =>
               Get(user_data', K_PENDING_SERIES_PLAN) = Get(user_data, K_PENDING_SERIES_PLAN)
        /\ (turn.op = "series_confirm" /\ turn.reply = "commit_failed"
            /\ turn'.op = "series_confirm" /\ turn'.arg.user_known) =>
               /\ turn'.calls /= <<>>
               /\ turn'.calls[1] = "create_block"
               /\ \A k \in DOMAIN PendingBlocks(user_data) :
                      CreatedByPress(turn', k) =>
                          Cardinality(BlockEvents(calendar', PendingBlocks(user_data)[k])) =
                              Cardinality(BlockEvents(calendar, PendingBlocks(user_data)[k])) + 1
        /\ (turn.op = "series_confirm" /\ turn.reply = "committed"
            /\ turn'.op = "series_confirm") =>
               /\ ~Has(user_data, K_PENDING_SERIES_PLAN)
               /\ turn'.reply = "no_plan"
               /\ turn'.calls = <<>>
               /\ calendar' = calendar ]_vars

\* the second block failed in the first commit, the retry went through: the
\* first block of the plan is in the calendar twice
C33_Witness ==
    /\ turn.op = "series_confirm"
    /\ turn.reply = "committed"
    /\ \E e1, e2 \in calendar : /\ e1.id /= e2.id
                                 /\ e1.summary = "series_block"
                                 /\ e2.summary = "series_block"
                                 /\ e1.start = e2.start
                                 /\ e1.end = e2.end

----------------------------------------------------------------------------
(* The series dialogue in text messages (app/bot/series.py,
   app/bot/handlers.py fallback): the specification SpecDialogue *)

K_EXPECTING_SERIES_GOAL == "expecting_series_goal"
K_EXPECTING_SERIES_DEADLINE == "expecting_series_deadline"
K_EXPECTING_SERIES_HOURS == "expecting_series_hours"
K_EXPECTING_SERIES_BLOCK_DURATION == "expecting_series_block_duration"

SERIES_EXPECTATION_KEYS ==
    {K_EXPECTING_SERIES_GOAL, K_EXPECTING_SERIES_DEADLINE, K_EXPECTING_SERIES_HOURS,
     K_EXPECTING_SERIES_BLOCK_DURATION}

MaxDialogueTurns == 3

\* the texts of the dialogue: a goal, a goal that holds one of the plan
\* keywords of fallback, two deadlines, two numbers
DialogueTexts == {"thesis", "plan thesis", "zavtra", "zavtra 10:00", "6", "90"}

\* any(keyword in lower_text for keyword in plan_keywords)
HasPlanKeyword(text) == text = "plan thesis"

\* _parse_deadline on these texts: "zavtra" is tomorrow at 18:00 or at the
\* hour the text names, everything else matches no keyword and no pattern
ParseDeadline(text, now) ==
    IF text = "zavtra" THEN Some(At(DayOf(now) + 1, 18, 0))
    ELSE IF text = "zavtra 10:00" THEN Some(At(DayOf(now) + 1, 10, 0))
    ELSE None

\* float(text) and int(text) on these texts, None for ValueError
ParseNumber(text) ==
    IF text = "6" THEN Some(6) ELSE IF text = "90" THEN Some(90) ELSE None

\* the series_plan metadata of an analysis: title and deadline, each optional
DialogueMetadata ==
    [title : {None, Some("exam")}, deadline : {None, Some("thesis"), Some("zavtra")}]
NoMetadata == [title |-> None, deadline |-> None]

DialogueMessages ==
    { [text |-> t, intent |-> "small_talk", metadata |-> NoMetadata] : t \in DialogueTexts }
    \cup { [text |-> t, intent |-> "series_plan", metadata |-> m] :
           t \in {"thesis", "zavtra"}, m \in DialogueMetadata }

\* what a text handler leaves: user_data, the reply, the backend calls
Said(ud, reply, calls) == [ud |-> ud, reply |-> reply, calls |-> calls]

\* context.user_data.pop(key, False) is truthy
Expecting(ud, key) == Has(ud, key) /\ ud[key] = TRUE

\* _series_flow_active
SeriesFlowActive(ud) ==
    Has(ud, K_PENDING_SERIES_PLAN) \/ \E key \in SERIES_EXPECTATION_KEYS : Expecting(ud, key)

\* handle_series_shortcut
HandleSeriesShortcut(ud) == Said(Put(ud, K_EXPECTING_SERIES_GOAL, TRUE), "ask_goal", <<>>)

\* handle_series_intent
HandleSeriesIntent(ud, cal, metadata, clock, fails) ==
    LET title == IF IsSome(metadata.title) THEN Val(metadata.title) ELSE "series"
        deadline == ParseDeadline(IF IsSome(metadata.deadline) THEN Val(metadata.deadline)
                                  ELSE "", clock.now)
        stored == Put(Put(Put(Put(Put(Put(Put(ud,
                      K_SERIES_GOAL, title),
                      K_SERIES_DEADLINE, Val(deadline)),
                      K_SERIES_TOTAL_MINUTES, DefaultSeriesTotalMinutes),
                      K_SERIES_BLOCK_MINUTES, DefaultSeriesBlockMinutes),
                      K_SERIES_START_HOUR, SERIES_TIME_RANGES["any"][1]),
                      K_SERIES_END_HOUR, SERIES_TIME_RANGES["any"][2]),
                      K_SERIES_ALLOW_WEEKENDS, TRUE)
        shown == ShowSeriesPreview(stored, cal, clock, fails)
    IN IF IsNone(deadline)
       THEN Said(Put(ud, K_EXPECTING_SERIES_GOAL, TRUE), "need_deadline", <<>>)
       ELSE Said(shown.ud, shown.reply, shown.calls)

\* process_series_state_message: the branch of the first expectation that is
\* set; None when no expectation is set (the function returns False)
ProcessSeriesStateMessage(ud, text, clock) ==
    IF Expecting(ud, K_EXPECTING_SERIES_GOAL)
    THEN Some(Said(Put(Put(Pop(ud, K_EXPECTING_SERIES_GOAL), K_SERIES_GOAL, text),
                       K_EXPECTING_SERIES_DEADLINE, TRUE),
                   "ask_deadline", <<>>))
    ELSE IF Expecting(ud, K_EXPECTING_SERIES_DEADLINE)
    THEN IF IsNone(ParseDeadline(text, clock.now))
         THEN Some(Said(PopAll(ud, {K_EXPECTING_SERIES_GOAL}), "bad_deadline", <<>>))
         ELSE Some(Said(Put(Put(PopAll(ud, {K_EXPECTING_SERIES_GOAL,
                                            K_EXPECTING_SERIES_DEADLINE}),
                                K_SERIES_DEADLINE, Val(ParseDeadline(text, clock.now))),
                            K_EXPECTING_SERIES_HOURS, TRUE),
                        "ask_hours", <<>>))
    ELSE IF Expecting(ud, K_EXPECTING_SERIES_HOURS)
    THEN IF IsNone(ParseNumber(text))
         THEN Some(Said(PopAll(ud, {K_EXPECTING_SERIES_GOAL, K_EXPECTING_SERIES_DEADLINE}),
                        "bad_hours", <<>>))
         ELSE Some(Said(Put(Put(PopAll(ud, {K_EXPECTING_SERIES_GOAL,
                                            K_EXPECTING_SERIES_DEADLINE,
                                            K_EXPECTING_SERIES_HOURS}),
                                K_SERIES_TOTAL_MINUTES, Max(30, Val(ParseNumber(text)) * 60)),
                            K_EXPECTING_SERIES_BLOCK_DURATION, TRUE),
                        "ask_block", <<>>))
    ELSE IF Expecting(ud, K_EXPECTING_SERIES_BLOCK_DURATION)
    THEN IF IsNone(ParseNumber(text))
         THEN Some(Said(PopAll(ud, {K_EXPECTING_SERIES_GOAL, K_EXPECTING_SERIES_DEADLINE,
                                    K_EXPECTING_SERIES_HOURS}),
                        "bad_block", <<>>))
         ELSE Some(Said(Put(PopAll(ud, SERIES_EXPECTATION_KEYS),
                            K_SERIES_BLOCK_MINUTES, Max(30, Min(Val(ParseNumber(text)), 240))),
                        "ask_time", <<>>))
    ELSE None

\* fallback (the text handler) for the messages of the dialogue: the plan-keyword shortcut,
\* the expectations it pops, the series dialogue, then the intent router
HandleDialogueText(ud, cal, msg, clock, fails) ==
    IF ~SeriesFlowActive(ud) /\ HasPlanKeyword(msg.text) THEN HandleSeriesShortcut(ud)
    ELSE LET popped == PopAll(ud, {K_EXPECTING_EVENT, K_EXPECTING_SEARCH})
             state == ProcessSeriesStateMessage(popped, msg.text, clock)
         IN IF IsSome(state) THEN Val(state)
            ELSE IF msg.intent = "series_plan"
            THEN HandleSeriesIntent(PopAll(popped, SERIES_EXPECTATION_KEYS), cal, msg.metadata,
                                    clock, fails)
            ELSE Said(PopAll(popped, SERIES_EXPECTATION_KEYS), "analysis_reply", <<>>)

InitDialogue ==
    /\ calendar \in SeriesCalendars
    /\ next_id = FirstNewId
    /\ user_data = EmptyDict
    /\ \E clock \in SeriesClocks :
           turn = [IdleTurn EXCEPT !.arg = [clock |-> clock]]
    /\ turns_left = MaxDialogueTurns
    /\ fs_request = IdleRequest
    /\ fs_busy = <<>>
    /\ fs_max = DefaultMaxSuggestions
    /\ fs_slots = <<>>
    /\ fs_pc = "idle"
    /\ fs_loop = <<>>
    /\ series_db = <<>>
    /\ tasks = <<>>

\* a text message of the user
SayText ==
    /\ turns_left > 0
    /\ \E msg \in DialogueMessages, fails \in SUBSET {"list"} :
           LET said == HandleDialogueText(user_data, calendar, msg, turn.arg.clock, fails)
           IN /\ user_data' = said.ud
              /\ turn' = [op |-> "text",
                          arg |-> [clock |-> turn.arg.clock, text |-> msg.text,
                                   intent |-> msg.intent, metadata |-> msg.metadata],
                          reply |-> said.reply, calls |-> said.calls, applied |-> None,
                          failed |-> \E i \in DOMAIN said.calls : said.calls[i] \in fails]
    /\ turns_left' = turns_left - 1
    /\ UNCHANGED <<calendar, next_id, fsVars, series_db, tasks>>

NextDialogue == SayText

SpecDialogue == InitDialogue /\ [][NextDialogue]_vars

\* the turn answered a series-plan intent by asking for the deadline
AskedForDeadline(t) == t.op = "text" /\ t.reply = "need_deadline"

\* C40: after a series-plan intent without a usable deadline was answered by
\* asking for the deadline, the next text message is taken as the deadline:
\* a text that reads as a date is stored as the deadline of the plan and the
\* dialogue goes on to the hours, any other text is refused as a date; and a
\* title the intent supplied is the goal of the plan afterwards
C40_NextTextIsTheDeadline ==
    [][ (AskedForDeadline(turn) /\ turn'.op = "text") =>
            /\ IF IsSome(ParseDeadline(turn'.arg.text, turn'.arg.clock.now))
               THEN /\ Get(user_data', K_SERIES_DEADLINE) =
                           ParseDeadline(turn'.arg.text, turn'.arg.clock.now)
                    /\ turn'.reply = "ask_hours"
               ELSE turn'.reply = "bad_deadline"
            /\ IsSome(turn.arg.metadata.title) =>
                   Get(user_data', K_SERIES_GOAL) = turn.arg.metadata.title ]_vars

----------------------------------------------------------------------------
(* The conflict detector and relative shifts on their own: the             *)
(* specification SpecProbe                                                  *)

MaxProbeTurns == 3

\* "yoha" and "zvit" are back to back, "nich" runs over midnight, "obid" is
\* cancelled, "sviato" is an all-day event of day 0
ProbeEventPool ==
    { TimedEvent(1, "yoha", At(0, 10, 15), At(0, 10, 45)),
      TimedEvent(2, "zvit", At(0, 10, 45), At(0, 11, 45)),
      TimedEvent(3, "nich", At(0, 23, 30), At(1, 0, 30)),
      Event(4, "obid", TimedPayload(At(0, 13, 0)), TimedPayload(At(0, 14, 0)), "cancelled"),
      Event(5, "sviato", DatePayload(0), DatePayload(1), "confirmed") }

ProbeCalendars == {c \in SUBSET ProbeEventPool : Cardinality(c) \in 1..2}

\* candidate intervals handed to _detect_conflict
ProbeIntervals ==
    { <<At(0, 9, 45), At(0, 10, 15)>>, <<At(0, 10, 0), At(0, 10, 30)>>,
      <<At(0, 10, 45), At(0, 11, 15)>>, <<At(0, 11, 45), At(0, 12, 15)>>,
      <<At(0, 13, 0), At(0, 13, 30)>>, <<At(1, 0, 0), At(1, 0, 30)>>,
      <<At(1, 0, 30), At(1, 1, 0)>> }

ProbeShifts == {60, -60, 90}

InitProbe ==
    /\ calendar \in ProbeCalendars
    /\ next_id = FirstNewId
    /\ user_data = EmptyDict
    /\ turn = IdleTurn
    /\ turns_left = MaxProbeTurns
    /\ fs_request = IdleRequest
    /\ fs_busy = <<>>
    /\ fs_max = DefaultMaxSuggestions
    /\ fs_slots = <<>>
    /\ fs_pc = "idle"
    /\ fs_loop = <<>>
    /\ series_db = <<>>
    /\ tasks = <<>>

\* one call of _detect_conflict(start_dt, end_dt, exclude_event_id)
ProbeConflict ==
    /\ turns_left > 0
    /\ \E iv \in ProbeIntervals, exclude \in {None} \cup {Some(e.id) : e \in calendar} :
           turn' = [op |-> "detect",
                    arg |-> [start_dt |-> iv[1], end_dt |-> iv[2], exclude_event_id |-> exclude],
                    reply |-> IF IsSome(DetectConflict(calendar, iv[1], iv[2], exclude))
                              THEN "conflict" ELSE "clear",
                    calls |-> <<"list">>,
                    applied |-> DetectConflict(calendar, iv[1], iv[2], exclude)]
    /\ turns_left' = turns_left - 1
    /\ UNCHANGED <<calendar, next_id, user_data, fsVars, series_db, tasks>>

\* the turn record of one _apply_event_update that shifts event_id by
\* shift_minutes; origin is the interval the event had before the first shift
ShiftTurn(op, event_id, shift_minutes, origin, res) ==
    [op |-> op,
     arg |-> [event_id |-> event_id, shift_minutes |-> shift_minutes, origin |-> origin],
     reply |-> res.kind, calls |-> res.calls, applied |-> res.event]

\* _apply_event_update(event, {"shift_minutes": m}) on the event as the backend holds it
ShiftBy(cal, event_id, shift_minutes, ignore_conflicts) ==
    ApplyEventUpdate(cal, event_id, EventById(cal, event_id),
                     [NoPatch EXCEPT !.shift_minutes = Some(shift_minutes)],
                     FALSE, FALSE, None, None, FALSE, ignore_conflicts, Today, {})

\* a relative shift of one event
ShiftEvent ==
    /\ turns_left > 0
    /\ \E e \in calendar, m \in ProbeShifts, ignore_conflicts \in BOOLEAN :
           /\ turn' = ShiftTurn("shift", e.id, m,
                                <<ParseGoogleDatetime(e.start), ParseGoogleDatetime(e.end), e>>,
                                ShiftBy(calendar, e.id, m, ignore_conflicts))
           /\ calendar' = ShiftBy(calendar, e.id, m, ignore_conflicts).cal
    /\ turns_left' = turns_left - 1
    /\ UNCHANGED <<next_id, user_data, fsVars, series_db, tasks>>

\* the opposite shift, applied to the event the last shift produced
ShiftBack ==
    /\ turns_left > 0
    /\ turn.op = "shift"
    /\ turn.reply = "updated"
    /\ \E ignore_conflicts \in BOOLEAN :
           /\ turn' = ShiftTurn("shift_back", turn.arg.event_id, -turn.arg.shift_minutes,
                                turn.arg.origin,
                                ShiftBy(calendar, turn.arg.event_id, -turn.arg.shift_minutes,
                                        ignore_conflicts))
           /\ calendar' = ShiftBy(calendar, turn.arg.event_id, -turn.arg.shift_minutes,
                                  ignore_conflicts).cal
    /\ turns_left' = turns_left - 1
    /\ UNCHANGED <<next_id, user_data, fsVars, series_db, tasks>>

MaxPatchTurns == 2   \* turns of a run of SpecPatch

\* patches of the interval: an absolute start (12:00 of day 0, 09:00 of day 1)
\* or none, a shift of an hour or none, a new duration of 45 minutes or none
ProbePatches ==
    { [NoPatch EXCEPT !.start = s, !.shift_minutes = m, !.duration_minutes = d] :
      s \in {None, Some(At(0, 12, 0)), Some(At(1, 9, 0))},
      m \in {None, Some(60)},
      d \in {None, Some(45)} } \ {NoPatch}

\* _apply_event_update(event, patch) on the event as the backend holds it
PatchBy(cal, event_id, patch, ignore_conflicts) ==
    ApplyEventUpdate(cal, event_id, EventById(cal, event_id), patch,
                     FALSE, FALSE, None, None, FALSE, ignore_conflicts, Today, {})

\* one _apply_event_update that changes the interval of an event
PatchEvent ==
    /\ turns_left > 0
    /\ \E e \in calendar, patch \in ProbePatches, ignore_conflicts \in BOOLEAN :
           /\ turn' = [op |-> "patch",
                       arg |-> [event_id |-> e.id, patch |-> patch,
                                origin |-> <<ApiStart(e), ApiEnd(e)>>],
                       reply |-> PatchBy(calendar, e.id, patch, ignore_conflicts).kind,
                       calls |-> PatchBy(calendar, e.id, patch, ignore_conflicts).calls,
                       applied |-> PatchBy(calendar, e.id, patch, ignore_conflicts).event]
           /\ calendar' = PatchBy(calendar, e.id, patch, ignore_conflicts).cal
    /\ turns_left' = turns_left - 1
    /\ UNCHANGED <<next_id, user_data, fsVars, series_db, tasks>>

NextProbe ==
    \/ ProbeConflict
    \/ ShiftEvent
    \/ ShiftBack

SpecProbe == InitProbe /\ [][NextProbe]_vars

\* the live events other than the excluded one that share exactly a boundary
\* instant with [start_dt, end_dt)
Touching(cal, start_dt, end_dt, exclude_event_id) ==
    {e \in cal : /\ e.status /= "cancelled"
                 /\ exclude_event_id /= Some(e.id)
                 /\ (ApiStart(e) = end_dt \/ ApiEnd(e) = start_dt)}

\* C16: _detect_conflict never names an event that only shares a boundary
\* instant with the candidate interval, and it returns no conflict when the
\* events around the candidate do no more than touch it
C16_SharedBoundaryIsNoConflict ==
    turn.op = "detect" =>
        LET start_dt == turn.arg.start_dt
            end_dt == turn.arg.end_dt
            touching == Touching(calendar, start_dt, end_dt, turn.arg.exclude_event_id)
            overlapping == {e \in LiveOverlapping(calendar, start_dt, end_dt) :
                               turn.arg.exclude_event_id /= Some(e.id)}
        IN /\ IsSome(turn.applied) =>
                  \A e \in touching : Val(turn.applied).event_id /= e.id
           /\ (touching /= {} /\ overlapping = {}) => turn.applied = None

\* a candidate 10:45-11:15 that starts when "yoha" ends was probed against a
\* calendar holding "yoha" and found clear
C16_Witness ==
    /\ turn.op = "detect"
    /\ turn.reply = "clear"
    /\ turn.arg.start_dt = At(0, 10, 45)
    /\ turn.arg.exclude_event_id = None
    /\ \E e \in calendar : e.summary = "yoha" /\ ApiEnd(e) = turn.arg.start_dt

\* C25: _detect_conflict returns the first event, in the order the backend
\* lists the window [start - 1 min, end + 1 min], that is not cancelled, is not
\* the excluded event and overlaps the candidate strictly (start < other.end
\* and end > other.start); it returns none exactly when the listing holds no
\* such event
C25_FirstOverlappingListedEvent ==
    turn.op = "detect" =>
        LET start_dt == turn.arg.start_dt
            end_dt == turn.arg.end_dt
            listed == ListEventsBetween(calendar, start_dt - 1, end_dt + 1, 20)
            hits == {i \in DOMAIN listed :
                        /\ listed[i].status /= "cancelled"
                        /\ turn.arg.exclude_event_id /= Some(listed[i].id)
                        /\ start_dt < ApiEnd(listed[i])
                        /\ end_dt > ApiStart(listed[i])}
        IN /\ (turn.applied = None) = (hits = {})
           /\ hits /= {} =>
                  \E k \in hits :
                      /\ \A j \in hits : k <= j
                      /\ Val(turn.applied).event_id = listed[k].id
                      /\ Val(turn.applied).summary = listed[k].summary

\* 10:00-10:30 was probed against the all-day "sviato" and "yoha", which both
\* overlap it: the all-day event, listed first, is the one returned
C25_Witness ==
    /\ turn.op = "detect"
    /\ turn.arg.start_dt = At(0, 10, 0)
    /\ turn.arg.exclude_event_id = None
    /\ {e.summary : e \in calendar} = {"sviato", "yoha"}
    /\ turn.applied /= None
    /\ Val(turn.applied).summary = "sviato"

\* SpecPatch: interval patches applied one after another
InitPatch ==
    /\ calendar \in ProbeCalendars
    /\ next_id = FirstNewId
    /\ user_data = EmptyDict
    /\ turn = IdleTurn
    /\ turns_left = MaxPatchTurns
    /\ fs_request = IdleRequest
    /\ fs_busy = <<>>
    /\ fs_max = DefaultMaxSuggestions
    /\ fs_slots = <<>>
    /\ fs_pc = "idle"
    /\ fs_loop = <<>>
    /\ series_db = <<>>
    /\ tasks = <<>>

NextPatch == PatchEvent

SpecPatch == InitPatch /\ [][NextPatch]_vars

\* the start a patch resolves to: the absolute start if there is one (on the
\* event's own date when the start names today and the event lies on another
\* day), else the original start moved by the shift, else the original start
ResolvedStart(patch, original_start) ==
    IF IsSome(patch.start)
    THEN IF DayOf(Val(patch.start)) = Today /\ DayOf(original_start) /= Today
         THEN At(DayOf(original_start), 0, MinuteOfDay(Val(patch.start)))
         ELSE Val(patch.start)
    ELSE IF IsSome(patch.shift_minutes) THEN original_start + Val(patch.shift_minutes)
    ELSE original_start

\* C28: the interval _apply_event_update writes is resolved in a fixed order:
\* an absolute new start wins over a relative shift, which is ignored when
\* both are given; a new duration puts the end that many minutes after the
\* start resulting from the move or the shift; without a new duration the
\* event keeps the duration it had
C28_PatchResolutionOrder ==
    (turn.op = "patch" /\ turn.reply = "updated") =>
        LET e == EventById(calendar, turn.arg.event_id)
            patch == turn.arg.patch
            original_start == turn.arg.origin[1]
            original_end == turn.arg.origin[2]
            start == ResolvedStart(patch, original_start)
        IN /\ ApiStart(e) = start
           /\ ApiEnd(e) = IF IsSome(patch.duration_minutes)
                          THEN start + Val(patch.duration_minutes)
                          ELSE start + (original_end - original_start)

\* "yoha" (10:15-10:45) was patched with the start 12:00, a shift of an hour
\* and the duration 45 minutes together, and lies at 12:00-12:45
C28_Witness ==
    /\ turn.op = "patch"
    /\ turn.reply = "updated"
    /\ turn.arg.origin = <<At(0, 10, 15), At(0, 10, 45)>>
    /\ turn.arg.patch = [NoPatch EXCEPT !.start = Some(At(0, 12, 0)),
                                        !.shift_minutes = Some(60),
                                        !.duration_minutes = Some(45)]
    /\ EventById(calendar, turn.arg.event_id).start = TimedPayload(At(0, 12, 0))
    /\ EventById(calendar, turn.arg.event_id).end = TimedPayload(At(0, 12, 45))

\* C17: an event shifted by m minutes and then by -m minutes (m = 60 among
\* them), both shifts applied, has its original start and end again; an
\* event that carried dateTime payloads is the same event as before
C17_ShiftRoundTrip ==
    (turn.op = "shift_back" /\ turn.reply = "updated") =>
        LET e == EventById(calendar, turn.arg.event_id)
        IN /\ ParseGoogleDatetime(e.start) = turn.arg.origin[1]
           /\ ParseGoogleDatetime(e.end) = turn.arg.origin[2]
           /\ IsSome(turn.arg.origin[3].start.dateTime) => e = turn.arg.origin[3]

\* "yoha" was moved by +60 minutes and back by -60 and is at 10:15-10:45 again
C17_Witness ==
    /\ turn.op = "shift_back"
    /\ turn.reply = "updated"
    /\ turn.arg.shift_minutes = -60
    /\ \E e \in calendar : /\ e.id = turn.arg.event_id
                            /\ e.summary = "yoha"
                            /\ e.start = TimedPayload(At(0, 10, 15))
                            /\ e.end = TimedPayload(At(0, 10, 45))

----------------------------------------------------------------------------
(* Properties of the conversation *)

HoldsCreateConflict(ud) == Has(ud, K_PENDING_CREATE_CONFLICT)
HoldsUpdateConflict(ud) == Has(ud, K_PENDING_UPDATE_CONFLICT)

\* C2: in every reachable state, handle_create_event asked for an event whose
\* interval overlaps a non-cancelled event issues no backend create, leaves
\* the calendar alone, and stores a PendingCreateConflict that holds the full
\* draft and the summary and time interval of a blocking event
C2_ConflictingCreateIsHeldBack ==
    \A p \in {ClashingProposal, FreeProposal}, fails \in SUBSET {"create"} :
        LET iv == Val(BuildEventTimes(p))
            blocking == LiveOverlapping(calendar, iv[1], iv[2])
            out == HandleCreateEvent(user_data, calendar, next_id, p, FALSE, fails)
        IN blocking /= {} =>
               /\ "create" \notin Range(out.calls)
               /\ out.cal = calendar
               /\ out.nid = next_id
               /\ out.reply = "create_conflict"
               /\ HoldsCreateConflict(out.ud)
               /\ out.ud[K_PENDING_CREATE_CONFLICT].draft =
                      [summary |-> Val(p.title), start |-> TimedPayload(iv[1]),
                       end |-> TimedPayload(iv[2]), description |-> p.notes,
                       location |-> p.location, recurrence |-> p.recurrence,
                       conference_data |-> IF p.needs_meet THEN Some("createRequest") ELSE None,
                       color_id |-> p.color_id,
                       reminders |-> RemindersFromMinutes(
                                         IF IsSome(p.reminder_minutes) THEN p.reminder_minutes
                                         ELSE Some(DEFAULT_REMINDER_MINUTES))]
               /\ \E e \in blocking :
                      /\ out.ud[K_PENDING_CREATE_CONFLICT].conflict.summary = e.summary
                      /\ out.ud[K_PENDING_CREATE_CONFLICT].conflict.time =
                             <<DayOf(ApiStart(e)), MinuteOfDay(ApiStart(e)), MinuteOfDay(ApiEnd(e))>>

\* a create of 10:00-10:30 was held back: the pending conflict names "yoha", 10:15-10:45
C2_Witness ==
    /\ turn.op = "create"
    /\ turn.reply = "create_conflict"
    /\ turn.calls = <<"list">>
    /\ HoldsCreateConflict(user_data)
    /\ user_data[K_PENDING_CREATE_CONFLICT].draft.start = TimedPayload(At(0, 10, 0))
    /\ user_data[K_PENDING_CREATE_CONFLICT].draft.end = TimedPayload(At(0, 10, 30))
    /\ user_data[K_PENDING_CREATE_CONFLICT].conflict.summary = "yoha"
    /\ user_data[K_PENDING_CREATE_CONFLICT].conflict.time = <<0, 615, 645>>

\* C3: in every reachable state at most one of the pending create conflict
\* and the pending update conflict is held
C3_AtMostOnePendingConflict == ~(HoldsCreateConflict(user_data) /\ HoldsUpdateConflict(user_data))

\* the commands other than confirm and cancel that C4 names
UnrelatedIntents == {"agenda", "lookup", "find_slots"}

\* C4: after an agenda, lookup or find-slots turn no pending conflict is
\* held, and a conflict_confirm pressed right after such a turn touches
\* neither the backend nor the calendar
C4_NoPendingConflictAcrossOtherIntent ==
    [][ /\ turn'.op \in UnrelatedIntents =>
               ~HoldsCreateConflict(user_data') /\ ~HoldsUpdateConflict(user_data')
        /\ (turn.op \in UnrelatedIntents /\ turn'.op = "conflict_confirm") =>
               turn'.calls = <<>> /\ calendar' = calendar ]_vars

\* button idx of the delete list still shown belongs to an event that is gone
DeletedThroughList(ud, cal, idx) ==
    /\ Has(ud, K_PENDING_DELETE_LIST)
    /\ idx >= 0
    /\ idx < Len(ud[K_PENDING_DELETE_LIST])
    /\ ~HasEvent(cal, ud[K_PENDING_DELETE_LIST][idx + 1].event_id)

\* C5: a delete_i press for an event already deleted through the list, and an
\* update_i press repeated right after the update it selected was applied,
\* are answered as state loss, set no pending item and call no backend
C5_SecondPressIsStateLoss ==
    [][ /\ (turn'.op = "delete_i" /\ DeletedThroughList(user_data, calendar, turn'.arg)) =>
               /\ turn'.reply = "state_loss"
               /\ ~Has(user_data', K_PENDING_DELETE)
               /\ turn'.calls = <<>>
        /\ (turn.op = "update_i" /\ turn.reply = "updated"
            /\ turn'.op = "update_i" /\ turn'.arg = turn.arg) =>
               /\ turn'.reply = "state_loss"
               /\ ~Has(user_data', K_PENDING_UPDATE_LIST)
               /\ turn'.calls = <<>> ]_vars

\* the list a delete_<idx> press reads, and the one an update_<idx> press reads
StoredDeleteList(ud) == IF Has(ud, K_PENDING_DELETE_LIST) THEN ud[K_PENDING_DELETE_LIST] ELSE <<>>
StoredUpdateList(ud) == IF Has(ud, K_PENDING_UPDATE_LIST) THEN ud[K_PENDING_UPDATE_LIST].items ELSE <<>>

\* the press was refused: 'not found', the pending delete as it was, no backend call
PressRefused(ud, ud_after, t) ==
    /\ t.reply = "state_loss"
    /\ t.calls = <<>>
    /\ Has(ud_after, K_PENDING_DELETE) = Has(ud, K_PENDING_DELETE)
    /\ Has(ud, K_PENDING_DELETE) => ud_after[K_PENDING_DELETE] = ud[K_PENDING_DELETE]

\* C29: a delete_i or update_i press acts only when 0 <= i < length of the
\* list stored at that moment; for every other i, the list having been cleared
\* included, the reply is 'not found', no pending delete is set and no backend
\* call is issued
C29_IndexIsRevalidated ==
    [][ /\ (turn'.op = "delete_i"
             /\ ~(0 <= turn'.arg /\ turn'.arg < Len(StoredDeleteList(user_data)))) =>
                PressRefused(user_data, user_data', turn')
        /\ (turn'.op = "update_i"
             /\ ~(0 <= turn'.arg /\ turn'.arg < Len(StoredUpdateList(user_data)))) =>
                PressRefused(user_data, user_data', turn') ]_vars

\* the interval _apply_event_update recomputes differs from the event's own
IntervalDiffers(event, update_data) ==
    LET interval == NewInterval(event, update_data, Today)
    IN interval.new_start /= interval.original_start \/ interval.new_end /= interval.original_end

\* C6: _apply_event_update consults the ConflictDetector only when the
\* recomputed interval differs from the original one and ignore_conflicts is
\* unset; an update that leaves the interval alone never ends in a conflict
C6_DetectorOnlyWhenIntervalChanges ==
    [][ (IsSome(turn'.applied) /\ HasEvent(calendar, Val(turn'.applied).event_id)) =>
            LET call == Val(turn'.applied)
                differs == IntervalDiffers(EventById(calendar, call.event_id), call.update.patch)
            IN /\ call.consulted => (differs /\ ~call.ignore_conflicts)
               /\ ~differs => turn'.reply /= "update_conflict" ]_vars

\* C7: an update that ends in a conflict issues no backend update and keeps
\* the request's patch, Meet flags, colour and reminder in the pending update
\* conflict; the conflict_confirm that follows applies exactly that patch to
\* the same event, conflicts ignored, with one backend update and no check
C7_ConfirmAppliesTheHeldPatch ==
    [][ /\ turn'.reply = "update_conflict" =>
               /\ "update" \notin Range(turn'.calls)
               /\ calendar' = calendar
               /\ HoldsUpdateConflict(user_data')
               /\ user_data'[K_PENDING_UPDATE_CONFLICT].update = Val(turn'.applied).update
               /\ user_data'[K_PENDING_UPDATE_CONFLICT].event_id = Val(turn'.applied).event_id
        /\ (turn.reply = "update_conflict" /\ turn'.op = "conflict_confirm") =>
               /\ turn'.calls = <<"update">>
               /\ IsSome(turn'.applied)
               /\ Val(turn'.applied).update = user_data[K_PENDING_UPDATE_CONFLICT].update
               /\ Val(turn'.applied).event_id = user_data[K_PENDING_UPDATE_CONFLICT].event_id
               /\ Val(turn'.applied).ignore_conflicts
               /\ ~Val(turn'.applied).consulted
               /\ ~HoldsUpdateConflict(user_data') ]_vars

\* C8: conflict_confirm and conflict_cancel that find no pending conflict
\* answer state loss and leave backend and calendar alone; conflict_confirm
\* consumes the one conflict it acts on and issues exactly one backend
\* mutation for it; conflict_cancel clears both and issues none
C8_PendingConflictConsumedOnce ==
    [][ /\ turn'.op = "conflict_confirm" =>
               /\ (~HoldsCreateConflict(user_data) /\ ~HoldsUpdateConflict(user_data)) =>
                      /\ turn'.reply = "state_loss"
                      /\ turn'.calls = <<>>
                      /\ calendar' = calendar
                      /\ user_data' = user_data
               /\ HoldsCreateConflict(user_data) =>
                      /\ turn'.calls = <<"create">>
                      /\ ~HoldsCreateConflict(user_data')
                      /\ HoldsUpdateConflict(user_data') = HoldsUpdateConflict(user_data)
               /\ (~HoldsCreateConflict(user_data) /\ HoldsUpdateConflict(user_data)) =>
                      /\ turn'.calls = <<"update">>
                      /\ ~HoldsUpdateConflict(user_data')
                      /\ ~HoldsCreateConflict(user_data')
        /\ turn'.op = "conflict_cancel" =>
               /\ turn'.calls = <<>>
               /\ calendar' = calendar
               /\ ~HoldsCreateConflict(user_data')
               /\ ~HoldsUpdateConflict(user_data')
               /\ (~HoldsCreateConflict(user_data) /\ ~HoldsUpdateConflict(user_data)) =>
                      turn'.reply = "state_loss" ]_vars

\* a second conflict_confirm, pressed after the first created the held event,
\* found nothing and was answered as state loss
C8_Witness ==
    /\ turn.op = "conflict_confirm"
    /\ turn.reply = "state_loss"
    /\ turn.calls = <<>>
    /\ next_id = FirstNewId + 1
    /\ \E e \in calendar : e.id = FirstNewId /\ e.start = TimedPayload(At(0, 10, 0))

\* the remembered free slots keep awaiting_use only while a slot remains
AwaitingUseHasSlots(ud) ==
    (Has(ud, K_LAST_FREE_SLOTS) /\ ud[K_LAST_FREE_SLOTS].awaiting_use) =>
        ud[K_LAST_FREE_SLOTS].slots /= <<>>

\* the replies of handle_create_event once it has an interval
PlacedReplies == {"created", "create_failed", "create_conflict"}

\* C9: in every reachable state awaiting_use implies remaining slots; a create
\* that took its interval from the remembered slots removed exactly the first
\* slot and left awaiting_use true exactly when slots remain, in the same
\* step; whatever a create turn answers, it either leaves the context as it
\* was or consumes the first slot in this way
C9_AwaitingUseFollowsSlots ==
    [][ /\ AwaitingUseHasSlots(user_data')
        /\ (turn'.op = "create" /\ turn'.reply \in PlacedReplies) =>
               /\ Has(user_data, K_LAST_FREE_SLOTS)
               /\ user_data[K_LAST_FREE_SLOTS].slots /= <<>>
               /\ Has(user_data', K_LAST_FREE_SLOTS)
               /\ user_data'[K_LAST_FREE_SLOTS] =
                      [user_data[K_LAST_FREE_SLOTS] EXCEPT
                          !.slots = Tail(user_data[K_LAST_FREE_SLOTS].slots),
                          !.awaiting_use = (Len(user_data[K_LAST_FREE_SLOTS].slots) > 1)]
        /\ turn'.op = "create" =>
               \/ Get(user_data', K_LAST_FREE_SLOTS) = Get(user_data, K_LAST_FREE_SLOTS)
               \/ /\ Has(user_data, K_LAST_FREE_SLOTS)
                  /\ user_data[K_LAST_FREE_SLOTS].slots /= <<>>
                  /\ Get(user_data', K_LAST_FREE_SLOTS) =
                         <<[user_data[K_LAST_FREE_SLOTS] EXCEPT
                               !.slots = Tail(user_data[K_LAST_FREE_SLOTS].slots),
                               !.awaiting_use = (Len(user_data[K_LAST_FREE_SLOTS].slots) > 1)]>>
    ]_vars

\* the last remembered slot was consumed: the list is empty and awaiting_use is false
C9_Witness ==
    /\ turn.op = "create"
    /\ turn.reply = "created"
    /\ Has(user_data, K_LAST_FREE_SLOTS)
    /\ user_data[K_LAST_FREE_SLOTS].slots = <<>>
    /\ ~user_data[K_LAST_FREE_SLOTS].awaiting_use

\* the page a turn returned: the slots remembered after a reply that listed slots
ReturnedPage(t, ud) ==
    IF t.op \in {"find_slots", "more_slots"} /\ t.reply = "slots" /\ Has(ud, K_LAST_FREE_SLOTS)
    THEN ud[K_LAST_FREE_SLOTS].slots
    ELSE <<>>

\* C21: a page whose last slot ends at T is remembered with next_start = T + 15
\* minutes; the 'later' navigation that follows it searches exactly when T + 15
\* lies before the original range end, with T + 15 as lower bound and the
\* original range end as upper bound, and every slot of the page it returns
\* starts at or after T + 15
C21_LaterStartsAfterBuffer ==
    [][ LET page == ReturnedPage(turn, user_data)
            T == page[Len(page)].end
            req == user_data[K_LAST_FREE_SLOTS].request
            later == user_data'[K_LAST_FREE_SLOTS]
        IN (page /= <<>> /\ turn'.op = "more_slots" /\ turn'.arg.nav = "later") =>
               /\ req.next_start = T + 15
               /\ (turn'.calls /= <<>>) = (T + 15 < req.date_to)
               /\ turn'.reply = "slots" =>
                      /\ \A i \in DOMAIN later.slots : later.slots[i].start >= T + 15
                      /\ later.slots =
                             FindSlots(calendar,
                                       [duration_minutes |-> req.duration,
                                        date_from |-> T + 15, date_to |-> req.date_to,
                                        preferred_start |-> req.preferred_start,
                                        preferred_end |-> req.preferred_end],
                                       DefaultMaxSuggestions).slots
                      /\ later.request.next_start =
                             later.slots[Len(later.slots)].end + 15 ]_vars

\* a later page was returned after a page that ended at 08:30 of day 1: its
\* first slot starts at 08:45
C21_Witness ==
    /\ turn.op = "more_slots"
    /\ turn.arg.nav = "later"
    /\ turn.reply = "slots"
    /\ Len(user_data[K_LAST_FREE_SLOTS].request.cursor_history) = 2
    /\ user_data[K_LAST_FREE_SLOTS].request.cursor_history[2] = At(1, 8, 45)
    /\ user_data[K_LAST_FREE_SLOTS].slots[1].start = At(1, 8, 45)

\* the cursor history of the remembered page holds only the initial range start
AtFirstPage(ud) ==
    /\ Has(ud, K_LAST_FREE_SLOTS)
    /\ Len(ud[K_LAST_FREE_SLOTS].request.cursor_history) = 1

\* C30: with a cursor history that holds only the initial range start, an
\* 'earlier' navigation that the backend answers ends as an empty result: it
\* reports that there are no earlier slots and leaves the LastFreeSlotsContext
\* (slots, next_start, cursor_history, awaiting_use) as it was
C30_EarlierAtFirstPageIsEmpty ==
    [][ (AtFirstPage(user_data) /\ turn'.op = "more_slots" /\ turn'.arg.nav = "earlier"
         /\ ~turn'.failed) =>
            /\ turn'.reply = "nothing_earlier"
            /\ user_data'[K_LAST_FREE_SLOTS] = user_data[K_LAST_FREE_SLOTS] ]_vars

\* the turn t was a navigation in the direction nav that the backend answered
Navigated(t, nav) == t.op = "more_slots" /\ t.arg.nav = nav /\ ~t.failed

\* C34: while the calendar stays as it is, a 'later' navigation that returns
\* a non-empty page followed by an 'earlier' navigation leaves the
\* LastFreeSlotsContext with the slots, the next_start and the cursor_history
\* it had before the 'later' navigation
C34_EarlierUndoesLater ==
    [][ (Navigated(turn, "later") /\ turn.reply = "slots" /\ Navigated(turn', "earlier")) =>
            LET before == Val(turn.found)
                after == user_data'[K_LAST_FREE_SLOTS]
            IN /\ after.slots = before.slots
               /\ after.request.next_start = before.request.next_start
               /\ after.request.cursor_history = before.request.cursor_history ]_vars

\* C36: a create request that is rejected for missing data (no title, or no
\* start and end that can be resolved) leaves the LastFreeSlotsContext as it
\* was; a create turn changes it only when it goes on to the conflict check
\* (the events.list call) with the slot it took
C36_RejectedCreateKeepsSlots ==
    [][ turn'.op = "create" =>
            /\ turn'.reply = "missing_data" =>
                   Get(user_data', K_LAST_FREE_SLOTS) = Get(user_data, K_LAST_FREE_SLOTS)
            /\ Get(user_data', K_LAST_FREE_SLOTS) /= Get(user_data, K_LAST_FREE_SLOTS) =>
                   turn'.calls /= <<>> ]_vars

\* the replies of handle_free_slots and handle_more_free_slots when the
\* backend answered
SlotReplies ==
    {"slots", "no_slots", "ask_duration", "nothing_earlier", "nothing_later", "ask_window_first"}

\* the turn t2 repeats the call of the turn t1: the same message reached the
\* same free-slot handler, and the backend answered both times
RepeatedCall(t1, t2, ops) ==
    /\ t1.op \in ops
    /\ t2.op = t1.op
    /\ t2.arg = t1.arg
    /\ t1.reply \in SlotReplies
    /\ t2.reply \in SlotReplies

\* C22: a find-slots or navigation call that repeats the previous call while
\* the calendar stays as it was gives the same reply and leaves the same
\* LastFreeSlotsContext (slots, request, next_start, cursor_history,
\* awaiting_use) as the first call
C22_SlotCallsAreIdempotent ==
    [][ (RepeatedCall(turn, turn', {"find_slots", "more_slots"}) /\ calendar' = calendar) =>
            /\ turn'.reply = turn.reply
            /\ Get(user_data', K_LAST_FREE_SLOTS) = Get(user_data, K_LAST_FREE_SLOTS) ]_vars

\* the replies that tell the user the operation failed
FailureReplies == {"create_failed", "update_failed", "delete_failed", "event_not_found"}

\* the turns of the find-slots, navigation, create, update and delete flows
FlowOps ==
    {"find_slots", "more_slots", "create", "update", "delete", "confirm_delete", "update_i",
     "conflict_confirm"}

\* C23: a turn of one of these flows during which a backend call (events.list, search, get, insert,
\* update or delete) failed ends with a reply that reports the failure: never
\* with the analysis' own reply, and never with an exception that leaves the
\* handler without any reply
C23_BackendFailureIsReported ==
    (turn.failed /\ turn.op \in FlowOps) => turn.reply \in FailureReplies

----------------------------------------------------------------------------
(* Adding and removing the Meet link: the specification SpecMeet *)

MaxMeetTurns == 3    \* turns of a run of SpecMeet

\* the seed calendar with a Meet link on "yoha", and "demo" with a Meet link
\* on day 1, away from every other event
MeetCalendar ==
    {IF e.id = 1 THEN [e EXCEPT !.conference = TRUE] ELSE e : e \in SeedCalendar}
    \cup {[TimedEvent(5, "demo", At(1, 14, 0), At(1, 15, 0)) EXCEPT !.conference = TRUE]}

\* update requests about the link: add and remove together, the same with a
\* move to 11:00 (which runs into "zvit"), add alone, remove alone, a new title
BothMeetPlan == [NoPlan EXCEPT !.add_meet = TRUE, !.remove_meet = TRUE]
MoveBothMeetPlan ==
    [NoPlan EXCEPT !.patch = [NoPatch EXCEPT !.start = Some(At(Today, 11, 0))],
                   !.add_meet = TRUE, !.remove_meet = TRUE]
AddMeetPlan == [NoPlan EXCEPT !.add_meet = TRUE]
RemoveMeetPlan == [NoPlan EXCEPT !.remove_meet = TRUE]
MeetPlans == {BothMeetPlan, MoveBothMeetPlan, AddMeetPlan, RemoveMeetPlan, TitlePlan}

\* by keywords (handle_event_update), or about the event handled last
\* (handle_event_update_by_id)
MeetMessages ==
    { [BaseMessage EXCEPT !.intent = "event_update", !.keywords = k, !.plan = u] :
      k \in {"yoha", "demo"}, u \in MeetPlans }
    \cup { [BaseMessage EXCEPT !.intent = "event_update", !.plan = u,
                               !.refers_to_last_event = TRUE] :
           u \in {BothMeetPlan, MoveBothMeetPlan, AddMeetPlan} }

InitMeet ==
    /\ calendar = MeetCalendar
    /\ next_id = FirstNewId
    /\ user_data = EmptyDict
    /\ turn = IdleTurn
    /\ turns_left = MaxMeetTurns
    /\ fs_request = IdleRequest
    /\ fs_busy = <<>>
    /\ fs_max = DefaultMaxSuggestions
    /\ fs_slots = <<>>
    /\ fs_pc = "idle"
    /\ fs_loop = <<>>
    /\ series_db = <<>>
    /\ tasks = <<>>

AskMeetUpdate ==
    /\ turns_left > 0
    /\ Text("update", MeetMessages, {{}, {"update"}})

NextMeet ==
    \/ AskMeetUpdate
    \/ PressConflictConfirm
    \/ PressConflictCancel

SpecMeet == InitMeet /\ [][NextMeet]_vars

\* the request of a turn asked for the link to be added and removed
AsksBothMeet(t) == t.op = "update" /\ t.arg.plan.add_meet /\ t.arg.plan.remove_meet

\* C24: a request that asks to add and to remove the Meet link reaches
\* _apply_event_update with remove set and add cleared, on the keyword path
\* and on the by-id path; when the update is applied the event has no link;
\* when a conflict holds it back the stored patch has remove set and add
\* cleared, and confirming it applies the removal and leaves no link
C24_RemoveMeetWins ==
    [][ /\ (AsksBothMeet(turn') /\ IsSome(turn'.applied)) =>
               /\ Val(turn'.applied).update.remove_meet
               /\ ~Val(turn'.applied).update.add_meet
               /\ turn'.reply = "updated" =>
                      ~EventById(calendar', Val(turn'.applied).event_id).conference
               /\ turn'.reply = "update_conflict" =>
                      /\ user_data'[K_PENDING_UPDATE_CONFLICT].update.remove_meet
                      /\ ~user_data'[K_PENDING_UPDATE_CONFLICT].update.add_meet
        /\ (AsksBothMeet(turn) /\ turn.reply = "update_conflict"
            /\ turn'.op = "conflict_confirm") =>
               /\ IsSome(turn'.applied)
               /\ Val(turn'.applied).update.remove_meet
               /\ ~Val(turn'.applied).update.add_meet
               /\ turn'.reply = "updated" =>
                      ~EventById(calendar', Val(turn'.applied).event_id).conference ]_vars

\* the confirmed pending update took the link off "yoha" and moved it to 11:00
C24_Witness ==
    /\ turn.op = "conflict_confirm"
    /\ turn.reply = "updated"
    /\ Val(turn.applied).update = [MoveBothMeetPlan EXCEPT !.add_meet = FALSE]
    /\ ~EventById(calendar, 1).conference
    /\ EventById(calendar, 1).start = TimedPayload(At(0, 11, 0))

----------------------------------------------------------------------------
(* Button handlers as coroutines: the specification SpecTasks              *)
(*                                                                         *)
(* A handler runs without interruption from one await to the next; while   *)
(* it is suspended another handler of the same user may run on the same    *)
(* context.user_data. A step below is one such stretch of code. An await   *)
(* of a Telegram reply after which the handler touches neither user_data   *)
(* nor the backend is not a step of its own.                               *)

MaxPresses == 2     \* button presses of a run of SpecTasks

\* the conversation before the presses: one or two text turns that left a
\* pending conflict, a pending delete or a list to choose from, or a series
\* dialogue that showed its preview
TaskSetupMessages ==
    { [BaseMessage EXCEPT !.intent = "create_event", !.event = Some(ClashingProposal)],
      [BaseMessage EXCEPT !.intent = "event_update", !.keywords = "yoha", !.plan = MovePlan],
      [BaseMessage EXCEPT !.intent = "event_delete", !.keywords = "yoha"],
      [BaseMessage EXCEPT !.intent = "event_update", !.keywords = "zvitu", !.plan = TitlePlan] }

SetupAfter(ud, msg) == Fallback(ud, SeedCalendar, FirstNewId, msg, {}).ud

SeriesSetup ==
    ShowSeriesPreview(
        Put(Put(Put(Put(Put(EmptyDict, K_SERIES_GOAL, "thesis"),
                        K_SERIES_DEADLINE, At(1, 12, 0)),
                    K_SERIES_TOTAL_MINUTES, 130),
                K_SERIES_BLOCK_MINUTES, 90),
            K_SERIES_ALLOW_WEEKENDS, TRUE),
        SeedCalendar, [now |-> Now, weekday0 |-> 3], {}).ud

TaskSetups ==
    { SetupAfter(EmptyDict, msg) : msg \in TaskSetupMessages }
    \cup { SetupAfter(SetupAfter(EmptyDict, m1), m2) :
           m1 \in {[BaseMessage EXCEPT !.intent = "event_update", !.keywords = "yoha",
                                       !.plan = MovePlan]},
           m2 \in {[BaseMessage EXCEPT !.intent = "create_event",
                                       !.event = Some(ClashingProposal)]} }
    \cup { SeriesSetup }

TaskKinds == {"conflict_confirm", "confirm_delete", "update_i", "series_confirm"}

\* the handler is in a backend call that has not answered yet
InBackendCall(t) == t.inflight /= {}

\* a handler that has just been entered: handle_callback_query awaits
\* query.answer() before it looks at the callback data. during: the handlers
\* that were suspended in a backend call at that moment
NewTask(kind, idx, during) ==
    [kind |-> kind, idx |-> idx, pc |-> "answer", got |-> None, calls |-> <<>>,
     inflight |-> {}, during |-> during, reply |-> "none", st |-> None]

InitTasks ==
    /\ calendar = SeedCalendar
    /\ next_id = FirstNewId
    /\ user_data \in TaskSetups
    /\ turn = IdleTurn
    /\ turns_left = MaxPresses
    /\ fs_request = IdleRequest
    /\ fs_busy = <<>>
    /\ fs_max = DefaultMaxSuggestions
    /\ fs_slots = <<>>
    /\ fs_pc = "idle"
    /\ fs_loop = <<>>
    /\ series_db = <<>>
    /\ tasks = <<>>

\* a button is pressed and its handler entered
PressButton ==
    /\ turns_left > 0
    /\ \E kind \in TaskKinds, idx \in 0..1 :
           /\ idx = 1 => kind = "update_i"
           /\ tasks' = Append(tasks, NewTask(kind, idx,
                                             {j \in DOMAIN tasks : InBackendCall(tasks[j])}))
    /\ turns_left' = turns_left - 1
    /\ UNCHANGED <<calendar, next_id, user_data, turn, fsVars, series_db>>

\* a conflict_confirm that reads the pending conflicts and leaves them in place
PeekPendingConflict(ud) ==
    [ud |-> ud,
     call |-> IF Has(ud, K_PENDING_CREATE_CONFLICT) THEN "create"
              ELSE IF Has(ud, K_PENDING_UPDATE_CONFLICT) THEN "update" ELSE "none",
     payload |-> IF Has(ud, K_PENDING_CREATE_CONFLICT) THEN Get(ud, K_PENDING_CREATE_CONFLICT)
                 ELSE Get(ud, K_PENDING_UPDATE_CONFLICT)]

\* conflict_confirm up to its backend call: pop the pending create conflict,
\* and the pending update conflict when there was none
TakePendingConflict(ud) ==
    LET create_pop == PopPendingCreateConflict(ud)
        update_pop == PopPendingUpdateConflict(create_pop.ud)
    IN IF IsSome(create_pop.value)
       THEN [ud |-> create_pop.ud, call |-> "create", payload |-> create_pop.value]
       ELSE [ud |-> update_pop.ud,
             call |-> IF IsSome(update_pop.value) THEN "update" ELSE "none",
             payload |-> update_pop.value]

\* conflict_confirm from query.answer() to the backend call
StartConflictConfirm ==
    \E i \in DOMAIN tasks :
        /\ tasks[i].kind = "conflict_confirm"
        /\ tasks[i].pc = "answer"
        /\ user_data' = TakePendingConflict(user_data).ud
        /\ tasks' = [tasks EXCEPT ![i] =
                        IF TakePendingConflict(user_data).call = "none"
                        THEN [@ EXCEPT !.pc = "end", !.reply = "state_loss"]
                        ELSE [@ EXCEPT !.pc = "wait",
                                       !.got = TakePendingConflict(user_data).payload,
                                       !.calls = <<TakePendingConflict(user_data).call>>,
                                       !.inflight = {0}]]
        /\ UNCHANGED <<calendar, next_id, turn, turns_left, fsVars, series_db>>

\* create_event_from_pending / apply_update_from_pending_conflict once the
\* backend has answered
FinishConflictConfirm ==
    \E i \in DOMAIN tasks :
        /\ tasks[i].kind = "conflict_confirm"
        /\ tasks[i].pc = "wait"
        /\ \E fails \in {{}, {"create", "update"}} :
               LET payload == Val(tasks[i].got)
                   out == IF tasks[i].calls[1] = "create"
                          THEN CreateEventFromPending(user_data, calendar, next_id, payload, fails)
                          ELSE ApplyUpdateFromPendingConflict(user_data, calendar, next_id, payload,
                                                              Today, fails)
               IN /\ user_data' = out.ud
                  /\ calendar' = out.cal
                  /\ next_id' = out.nid
                  /\ tasks' = [tasks EXCEPT ![i] = [@ EXCEPT !.pc = "end", !.inflight = {},
                                                             !.reply = out.reply]]
        /\ UNCHANGED <<turn, turns_left, fsVars, series_db>>

\* confirm_delete from query.answer() to the backend call: get_pending_delete
\* and, with a pending delete, delete_event
StartConfirmDelete ==
    \E i \in DOMAIN tasks :
        /\ tasks[i].kind = "confirm_delete"
        /\ tasks[i].pc = "answer"
        /\ tasks' = [tasks EXCEPT ![i] =
                        IF ~Has(user_data, K_PENDING_DELETE)
                        THEN [@ EXCEPT !.pc = "end", !.reply = "state_loss"]
                        ELSE [@ EXCEPT !.pc = "wait", !.got = Some(user_data[K_PENDING_DELETE]),
                                       !.calls = <<"delete">>, !.inflight = {0}]]
        /\ UNCHANGED <<calendar, next_id, user_data, turn, turns_left, fsVars, series_db>>

\* delete_event answers or raises; the handler then awaits the edit of its message
DeleteAnswered ==
    \E i \in DOMAIN tasks :
        /\ tasks[i].kind = "confirm_delete"
        /\ tasks[i].pc = "wait"
        /\ \E fails \in {{}, {"delete"}} :
               LET event_id == Val(tasks[i].got).event_id
                   ok == "delete" \notin fails /\ HasEvent(calendar, event_id)
               IN /\ calendar' = IF ok THEN DeleteEvent(calendar, event_id) ELSE calendar
                  /\ tasks' = [tasks EXCEPT ![i] =
                                  [@ EXCEPT !.pc = "reply", !.inflight = {},
                                            !.reply = IF ok THEN "deleted" ELSE "delete_failed"]]
        /\ UNCHANGED <<next_id, user_data, turn, turns_left, fsVars, series_db>>

\* confirm_delete after its reply: pop_pending_delete
FinishConfirmDelete ==
    \E i \in DOMAIN tasks :
        /\ tasks[i].kind = "confirm_delete"
        /\ tasks[i].pc = "reply"
        /\ user_data' = Pop(user_data, K_PENDING_DELETE)
        /\ tasks' = [tasks EXCEPT ![i] = [@ EXCEPT !.pc = "end"]]
        /\ UNCHANGED <<calendar, next_id, turn, turns_left, fsVars, series_db>>

\* update_<idx> from query.answer() to get_event of handle_event_update_by_id
StartUpdateIndex ==
    \E i \in DOMAIN tasks :
        /\ tasks[i].kind = "update_i"
        /\ tasks[i].pc = "answer"
        /\ user_data' = Pop(user_data, K_PENDING_UPDATE_DETAIL)
        /\ tasks' = [tasks EXCEPT ![i] =
                        IF \/ ~Has(user_data, K_PENDING_UPDATE_LIST)
                           \/ tasks[i].idx >= Len(user_data[K_PENDING_UPDATE_LIST].items)
                        THEN [@ EXCEPT !.pc = "end", !.reply = "state_loss"]
                        ELSE [@ EXCEPT !.pc = "wait",
                                       !.got = Some([event_id |->
                                                         PyItem(user_data[K_PENDING_UPDATE_LIST].items,
                                                                tasks[i].idx).event_id,
                                                     update_data |->
                                                         user_data[K_PENDING_UPDATE_LIST].update_data]),
                                       !.calls = <<"get">>, !.inflight = {0}]]
        /\ UNCHANGED <<calendar, next_id, turn, turns_left, fsVars, series_db>>

\* handle_event_update_by_id from the answer of get_event to its reply
UpdateAnswered ==
    \E i \in DOMAIN tasks :
        /\ tasks[i].kind = "update_i"
        /\ tasks[i].pc = "wait"
        /\ \E fails \in {{}, {"get"}, {"update"}} :
               LET out == HandleEventUpdateById(user_data, calendar, next_id,
                                                Val(tasks[i].got).event_id,
                                                Val(tasks[i].got).update_data, Today, fails)
               IN /\ user_data' = out.ud
                  /\ calendar' = out.cal
                  /\ next_id' = out.nid
                  /\ tasks' = [tasks EXCEPT ![i] = [@ EXCEPT !.pc = "reply", !.inflight = {},
                                                             !.calls = out.calls,
                                                             !.reply = out.reply]]
        /\ UNCHANGED <<turn, turns_left, fsVars, series_db>>

\* update_<idx> after handle_event_update_by_id returned: pop_pending_update_list
FinishUpdateIndex ==
    \E i \in DOMAIN tasks :
        /\ tasks[i].kind = "update_i"
        /\ tasks[i].pc = "reply"
        /\ user_data' = PopAll(user_data, {K_PENDING_UPDATE_LIST, K_PENDING_UPDATE_DATA})
        /\ tasks' = [tasks EXCEPT ![i] = [@ EXCEPT !.pc = "end"]]
        /\ UNCHANGED <<calendar, next_id, turn, turns_left, fsVars, series_db>>

\* series_confirm from query.answer() into commit_plan, up to its loop
StartSeriesConfirm ==
    \E i \in DOMAIN tasks :
        /\ tasks[i].kind = "series_confirm"
        /\ tasks[i].pc = "answer"
        /\ \E user_known \in BOOLEAN :
               tasks' = [tasks EXCEPT ![i] =
                            IF ~Has(user_data, K_PENDING_SERIES_PLAN)
                            THEN [@ EXCEPT !.pc = "end", !.reply = "no_plan"]
                            ELSE IF PayloadToPreview(user_data[K_PENDING_SERIES_PLAN]).blocks = <<>>
                                    \/ ~user_known
                            THEN [@ EXCEPT !.pc = "end", !.reply = "commit_failed"]
                            ELSE [@ EXCEPT !.pc = "commit",
                                           !.got = Some(PayloadToPreview(
                                                            user_data[K_PENDING_SERIES_PLAN])),
                                           !.st = Some(CommitStart({}, 0))]]
        /\ UNCHANGED <<calendar, next_id, user_data, turn, turns_left, fsVars, series_db>>

\* a loop that starts the creation of every block before it awaits any
BlocksToIssueAtOnce(st, blocks, inflight) ==
    IF inflight = {} /\ ~st.failed /\ st.calls = <<>>
    THEN {blocks[k].index : k \in DOMAIN blocks}
    ELSE {}

\* the create_event calls the loop of commit_plan starts next: the one for
\* the block after those created, once no call is awaited and none has raised
BlocksToIssue(st, blocks, inflight) ==
    IF inflight = {} /\ ~st.failed /\ Len(st.created_blocks) < Len(blocks)
    THEN {blocks[Len(st.created_blocks) + 1].index}
    ELSE {}

\* the loop of commit_plan calls create_event
IssueBlock ==
    \E i \in DOMAIN tasks :
        /\ tasks[i].kind = "series_confirm"
        /\ tasks[i].pc = "commit"
        /\ BlocksToIssue(Val(tasks[i].st), Val(tasks[i].got).blocks, tasks[i].inflight) /= {}
        /\ tasks' = [tasks EXCEPT ![i] =
                        [@ EXCEPT !.inflight = BlocksToIssue(Val(tasks[i].st),
                                                             Val(tasks[i].got).blocks,
                                                             tasks[i].inflight),
                                  !.calls = Append(@, "create_block")]]
        /\ UNCHANGED <<calendar, next_id, user_data, turn, turns_left, fsVars, series_db>>

\* a create_event of the loop answers or raises
CompleteBlock ==
    \E i \in DOMAIN tasks :
        /\ tasks[i].kind = "series_confirm"
        /\ tasks[i].pc = "commit"
        /\ \E b \in tasks[i].inflight, ok \in BOOLEAN :
               LET preview == Val(tasks[i].got)
                   st == CommitBlock([Val(tasks[i].st) EXCEPT !.cal = calendar, !.nid = next_id],
                                     preview.request, preview.blocks[b + 1],
                                     [block |-> IF ok THEN 0 ELSE b + 1, marker |-> FALSE])
               IN /\ calendar' = st.cal
                  /\ next_id' = st.nid
                  /\ tasks' = [tasks EXCEPT ![i] =
                                  [@ EXCEPT !.inflight = @ \ {b},
                                            !.st = Some([st EXCEPT !.cal = {}, !.nid = 0])]]
        /\ UNCHANGED <<user_data, turn, turns_left, fsVars, series_db>>

\* commit_plan after its loop: the deadline marker, the end of the database
\* session, and the reply of series_confirm
EndCommit ==
    \E i \in DOMAIN tasks :
        /\ tasks[i].kind = "series_confirm"
        /\ tasks[i].pc = "commit"
        /\ tasks[i].inflight = {}
        /\ BlocksToIssue(Val(tasks[i].st), Val(tasks[i].got).blocks, {}) = {}
        /\ \E marker_fails \in BOOLEAN :
               LET preview == Val(tasks[i].got)
                   done == CommitOutcome(EnsureDeadlineReminder(
                               [Val(tasks[i].st) EXCEPT !.cal = calendar, !.nid = next_id],
                               preview.request, [block |-> 0, marker |-> marker_fails]))
                   shown == ConfirmCommitted(user_data, series_db, preview, done)
               IN /\ calendar' = done.cal
                  /\ next_id' = done.nid
                  /\ series_db' = shown.db
                  /\ tasks' = [tasks EXCEPT ![i] =
                                  [@ EXCEPT !.pc = IF done.raised THEN "end" ELSE "reply",
                                            !.reply = shown.reply,
                                            !.st = Some([Val(@) EXCEPT !.failed = done.raised])]]
        /\ UNCHANGED <<user_data, turn, turns_left, fsVars>>

\* series_confirm after its reply: _clear_series_context
FinishSeriesConfirm ==
    \E i \in DOMAIN tasks :
        /\ tasks[i].kind = "series_confirm"
        /\ tasks[i].pc = "reply"
        /\ user_data' = ClearSeriesContext(user_data)
        /\ tasks' = [tasks EXCEPT ![i] = [@ EXCEPT !.pc = "end"]]
        /\ UNCHANGED <<calendar, next_id, turn, turns_left, fsVars, series_db>>

NextTasks ==
    \/ PressButton
    \/ StartConflictConfirm
    \/ FinishConflictConfirm
    \/ StartConfirmDelete
    \/ DeleteAnswered
    \/ FinishConfirmDelete
    \/ StartUpdateIndex
    \/ UpdateAnswered
    \/ FinishUpdateIndex
    \/ StartSeriesConfirm
    \/ IssueBlock
    \/ CompleteBlock
    \/ EndCommit
    \/ FinishSeriesConfirm

SpecTasks == InitTasks /\ [][NextTasks]_vars

\* the handler of press b was entered while that of press a was suspended in
\* its backend call, both for the same button
PressedDuring(a, b) ==
    /\ a \in tasks[b].during
    /\ tasks[a].kind = tasks[b].kind
    /\ tasks[a].idx = tasks[b].idx

\* the handler got hold of a pending item and called the backend for it
ActedOnPending(t) == IsSome(t.got)

\* C32: commit_plan issues the creations of the blocks one at a time in the
\* order of the preview: at most one creation of a commit is in flight, and
\* the creation of a block is in flight only when the creations of all blocks
\* before it have completed successfully
C32_BlockCreationsAreSequential ==
    \A i \in DOMAIN tasks :
        (tasks[i].kind = "series_confirm" /\ tasks[i].pc = "commit") =>
            LET st == Val(tasks[i].st)
            IN /\ Cardinality(tasks[i].inflight) <= 1
               /\ \A k \in DOMAIN st.created_blocks : st.created_blocks[k].index = k - 1
               /\ \A b \in tasks[i].inflight :
                      /\ ~st.failed
                      /\ Len(st.created_blocks) = b
                      /\ \A k \in 1..b :
                             BlockEvents(calendar, Val(tasks[i].got).blocks[k]) /= {}

\* the creation of the second block is in flight, the first block is in the calendar
C32_Witness ==
    \E i \in DOMAIN tasks :
        /\ tasks[i].kind = "series_confirm"
        /\ tasks[i].pc = "commit"
        /\ tasks[i].inflight = {1}
        /\ Len(Val(tasks[i].st).created_blocks) = 1
        /\ BlockEvents(calendar, Val(tasks[i].got).blocks[1]) /= {}

============================================================================
